---------------------------- MODULE Spec2Model ----------------------------
(***************************************************************************)
(* A model of src/bot.py: the Discord <-> Telegram ticket bridge.          *)
(*                                                                         *)
(* Every coroutine of the bot (a digest refresh, a close, a create) is a   *)
(* task; one action of the model is the code that runs between two awaits  *)
(* of one task (asyncio runs that code without interleaving), and the      *)
(* outcome of the awaited external call (it returns, or it raises) is the  *)
(* input of the action that resumes the task.                              *)
(***************************************************************************)
EXTENDS Integers, Sequences, FiniteSets, Bags, TLC

(***************************************************************************)
(* Bounds of the model.                                                    *)
(***************************************************************************)
MaxTasks == 2      \* coroutines in flight at the same time
MaxChannels == 1   \* ticket channels Discord allocates in one run
MaxButtons == 2    \* panel buttons of a published template
MaxTokens == 2     \* tokens of a text that is compiled
MaxHumans == 6     \* messages of members in the ticket channel
MaxBursts == 2     \* runs of bot messages in the ticket channel

(***************************************************************************)
(* The universe of identifiers.                                            *)
(***************************************************************************)
Members == {1, 2}             \* Discord users (ticket openers)
TgUsers == {11, 12}           \* Telegram users
Chats == {555, 777}           \* Telegram chats
Roles == {"admin", "manager", "builder", "viewer"}
TicketTypes == {"order", "support"}
LobbyChannel == 100           \* a text channel that is not a ticket
TicketChannels == 1..MaxChannels
ArchiveFiles == <<"dialog.txt", "dialog.json", "ticket_archive.zip">>

EmptyFn == [x \in {} |-> 0]

VARIABLES
    tg_admin_ids,   \* TG_ADMIN_IDS
    links,          \* UserLinkStore.discord_to_tg_chat
    roles,          \* TgRoleStore.roles
    roles_order,    \* the keys of TgRoleStore.roles in insertion order
    role_chats,     \* TgRoleStore.role_chats
    heap,           \* the TicketBinding objects, by reference
    bindings,       \* TicketStore._bindings: key -> reference
    ticket_file,    \* the document TicketStore.save last wrote
    channels,       \* the Discord text channels that exist
    next_channel,   \* the id Discord gave to the last created channel
    close_buttons,  \* channels holding a CloseTicketButton message
    panel,          \* panel_buttons of the published TicketOpenView
    tasks,          \* the coroutines in flight (a bag of frames)
    digest_sent,    \* history: <<channel, chat, message id>> of every
                    \* digest message Telegram accepted as new
    history,        \* the messages of the ticket channel, oldest first
    digest,         \* the digest text the last refresh handed to Telegram
    raw,            \* the document of a template in posts.json
    post,           \* the SavedPost loaded from it
    request,        \* the input of the last template operation
    response,       \* what that operation answered its caller
    published,      \* what publish_post last handed to channel.send
    post_store,     \* PostStore._posts: name -> SavedPost
    posts_file      \* the payload PostStore.save last wrote to posts.json

vars == <<tg_admin_ids, links, roles, roles_order, role_chats, heap, bindings,
          ticket_file, channels, next_channel, close_buttons, panel,
          tasks, digest_sent, history, digest, raw, post,
          request, response, published, post_store, posts_file>>

registry == <<tg_admin_ids, links, roles, roles_order, role_chats>>
ticket_store == <<heap, bindings, ticket_file>>
discord == <<channels, next_channel, close_buttons>>
channel_text == <<history, digest>>
posts == <<raw, post>>
editing == <<request, response, published>>
stored_posts == <<post_store, posts_file>>
templates == <<raw, post, request, response, published, post_store, posts_file>>

(***************************************************************************)
(* TgRoleStore and the notification target resolver.                       *)
(***************************************************************************)
\* A loop that returns at the first chat it finds.
ChatsFold_FirstOnly(rs, rc, allowed, uids) ==
    LET hits == {i \in 1..Len(uids) :
                    rs[uids[i]] \in allowed /\ uids[i] \in DOMAIN rc}
    IN IF hits = {} THEN {}
       ELSE {rc[uids[CHOOSE i \in hits : \A j \in hits : i <= j]]}

\* "for uid, role in self.roles.items()": the loop over the keys that are
\* left, in the dict's (insertion) order, adding to the set out.
RECURSIVE ChatsFold(_, _, _, _)
ChatsFold(rs, rc, allowed, uids) ==
    IF uids = <<>> THEN {}
    ELSE LET uid == Head(uids)
             rest == ChatsFold(rs, rc, allowed, Tail(uids))
         IN IF rs[uid] \in allowed /\ uid \in DOMAIN rc
            THEN {rc[uid]} \cup rest
            ELSE rest

\* A lookup that takes the chat of every user that has a role.
chats_with_roles_AnyRole(rs, ro, rc, allowed) ==
    ChatsFold(rs, rc, {rs[u] : u \in DOMAIN rs}, ro)

chats_with_roles(rs, ro, rc, allowed) == ChatsFold(rs, rc, allowed, ro)

get_tg_chat(ls, discord_user_id) ==
    IF discord_user_id \in DOMAIN ls THEN ls[discord_user_id] ELSE 0

\* A resolver that adds the builders' chats for every ticket type.
NotificationTargets_BuildersAlways(admins, ls, rs, ro, rc, ticket_type, opener_discord_id) ==
    LET opener_chat == get_tg_chat(ls, opener_discord_id)
        t1 == IF opener_chat # 0 THEN {opener_chat} ELSE {}
    IN t1 \cup admins \cup chats_with_roles(rs, ro, rc, {"admin", "manager", "builder"})

NotificationTargets(admins, ls, rs, ro, rc, ticket_type, opener_discord_id) ==
    LET opener_chat == get_tg_chat(ls, opener_discord_id)
        t1 == IF opener_chat # 0 THEN {opener_chat} ELSE {}
        t2 == t1 \cup admins
        t3 == t2 \cup chats_with_roles(rs, ro, rc, {"admin", "manager"})
    IN IF ticket_type = "order"
       THEN t3 \cup chats_with_roles(rs, ro, rc, {"builder"})
       ELSE t3

Targets(ticket_type, opener_discord_id) ==
    NotificationTargets(tg_admin_ids, links, roles, roles_order, role_chats,
                        ticket_type, opener_discord_id)

(***************************************************************************)
(* TicketStore.                                                            *)
(***************************************************************************)
\* asdict of every stored binding: what save() writes.
StoreDocument(b, h) == [k \in DOMAIN b |-> h[b[k]]]

\* A store keyed by the opener instead of the channel.
StoreSetKey_ByOpener(h, item) == h[item].opener_discord_id

StoreSetKey(h, item) == h[item].ticket_channel_id

\* TicketStore.set: the map after self._bindings[item.ticket_channel_id] = item
StoreSet(b, h, item) ==
    [k \in DOMAIN b \cup {StoreSetKey(h, item)} |->
        IF k = StoreSetKey(h, item) THEN item ELSE b[k]]

\* TicketStore.remove: the map after self._bindings.pop(channel_id, None)
StoreRemove(b, channel_id) == [k \in DOMAIN b \ {channel_id} |-> b[k]]

StoreGet(channel_id) ==
    IF channel_id \in DOMAIN bindings THEN bindings[channel_id] ELSE 0

(***************************************************************************)
(* The digest text of _update_ticket_digest.  A text is a sequence of      *)
(* segments; a segment is len characters of one part of the digest: the    *)
(* header, the line of the message at position msg of the channel, the     *)
(* placeholder line, a line break or the truncation marker.                *)
(***************************************************************************)
HistoryLimit == 20     \* channel.history(limit=20)
DigestSize == 5        \* if len(messages) >= 5: break
DigestMax == 3800      \* if len(digest) > 3800
ChannelNameLen == 10   \* len(channel.name)

Segment(kind, msg, len) == [kind |-> kind, msg |-> msg, len |-> len]

\* len(self._message_text(msg)): the stripped content, or "[attachment] "
\* and the file names, or "[empty]".
MessageTextLen(m) ==
    IF m.content > 0 THEN m.content
    ELSE IF m.files > 0 THEN 13 + m.files
    ELSE 7

\* "async for m in channel.history(limit=20)": the scan from the newest
\* message, position i, with the messages appended so far.
RECURSIVE Collect(_, _, _)
Collect(hist, i, messages) ==
    IF i < 1 \/ i <= Len(hist) - HistoryLimit THEN messages
    ELSE IF hist[i].bot THEN Collect(hist, i - 1, messages)
    ELSE IF Len(messages) + 1 >= DigestSize THEN Append(messages, i)
    ELSE Collect(hist, i - 1, Append(messages, i))

\* list(reversed(messages))
Reversed(messages) ==
    [k \in 1..Len(messages) |-> messages[Len(messages) + 1 - k]]

\* len(binding.ticket_type.upper())
TypeLen(ticket_type) == IF ticket_type = "order" THEN 5 ELSE 7

\* lines: the header, then one line for every collected message, or the
\* placeholder line.
DigestLines(ticket_type, hist) ==
    LET messages == Reversed(Collect(hist, Len(hist), <<>>))
        header == Segment("header", 0, 4 + TypeLen(ticket_type) + ChannelNameLen)
    IN IF messages # <<>>
       THEN <<header>> \o
            [k \in 1..Len(messages) |->
                Segment("line", messages[k],
                        1 + 2 + hist[messages[k]].name + 2
                          + MessageTextLen(hist[messages[k]]))]
       ELSE <<header, Segment("placeholder", 0, 28)>>

\* "\n".join(lines)
RECURSIVE Join(_)
Join(lines) ==
    IF Len(lines) <= 1 THEN lines
    ELSE <<Head(lines), Segment("break", 0, 1)>> \o Join(Tail(lines))

\* len(digest)
RECURSIVE TextLen(_)
TextLen(text) == IF text = <<>> THEN 0 ELSE Head(text).len + TextLen(Tail(text))

\* digest[:n]
RECURSIVE Prefix(_, _)
Prefix(text, n) ==
    IF n <= 0 \/ text = <<>> THEN <<>>
    ELSE IF Head(text).len <= n
         THEN <<Head(text)>> \o Prefix(Tail(text), n - Head(text).len)
         ELSE <<[Head(text) EXCEPT !.len = n]>>

\* A digest that is never cut.
TruncateDigest_Never(text) == text

\* if len(digest) > 3800: digest = digest[:3800] + "\n..."
TruncateDigest(text) ==
    IF TextLen(text) > DigestMax
    THEN Prefix(text, DigestMax) \o <<Segment("marker", 0, 4)>>
    ELSE text

\* The digest a refresh of the channel builds from its messages.
BuildDigest(ticket_type, hist) ==
    TruncateDigest(Join(DigestLines(ticket_type, hist)))

NoDigest == [text |-> <<>>, seen |-> 0]

NoDocument == [absent |-> TRUE]
NoPost == [absent |-> TRUE]
NoRequest == [absent |-> TRUE]
NoMessage == [absent |-> TRUE]
NoResponse == [absent |-> TRUE]

(***************************************************************************)
(* Task frames.  Every frame has the same fields; a field a coroutine      *)
(* does not use keeps its default.                                         *)
(***************************************************************************)
Frame == [kind |-> "", pc |-> "", ch |-> 0, binding |-> 0,
          ticket_type |-> "", opener |-> 0,
          targets |-> {}, todo |-> {}, cur |-> 0,
          msg_id |-> 0, changed |-> FALSE, file |-> 0,
          attempted |-> {}, any_failed |-> FALSE, declared |-> ""]

Running == BagToSet(tasks)
Spawn(t) == tasks (+) SetToBag({t})
Exit(t) == tasks (-) SetToBag({t})
Resume(t, u) == (tasks (-) SetToBag({t})) (+) SetToBag({u})
CanSpawn(limit) == BagCardinality(tasks) < limit

(***************************************************************************)
(* _update_ticket_digest                                                   *)
(***************************************************************************)
DigestIds(h, ref) == h[ref].digest_message_ids

\* binding.digest_message_ids.get(key)
DigestGet(h, ref, chat_id) ==
    IF chat_id \in DOMAIN DigestIds(h, ref) THEN DigestIds(h, ref)[chat_id] ELSE 0

\* The message id Telegram gives to a new message in a chat.
NewMessageId(chat_id) ==
    1 + Cardinality({s \in digest_sent : s[2] = chat_id})

\* on_message / on_message_edit / on_message_delete on a ticket channel:
\* the code up to the first await (channel.history).
RefreshStart(ch, limit) ==
    /\ CanSpawn(limit)
    /\ ch \in channels
    /\ StoreGet(ch) # 0
    /\ tasks' = Spawn([Frame EXCEPT !.kind = "refresh", !.pc = "history",
                                    !.ch = ch, !.binding = StoreGet(ch)])
    /\ UNCHANGED <<channel_text, templates>>
    /\ UNCHANGED <<registry, ticket_store, discord, panel, digest_sent>>

\* A refresh that never looks at the stored digest id.
RefreshIterate_AlwaysSend(t, h, chat_id, rest) ==
    [t EXCEPT !.pc = "send", !.cur = chat_id, !.todo = rest, !.msg_id = 0]

\* The head of one iteration of "for chat_id in targets": the read of the
\* stored digest id, up to the await of edit_message_text / send_message.
RefreshIterate(t, h, chat_id, rest) ==
    [t EXCEPT !.pc = IF DigestGet(h, t.binding, chat_id) # 0 THEN "edit" ELSE "send",
              !.cur = chat_id,
              !.todo = rest,
              !.msg_id = DigestGet(h, t.binding, chat_id)]

\* channel.history returned: the digest is built, the targets are resolved,
\* and the loop starts.
RefreshHistory(t) ==
    /\ t.kind = "refresh" /\ t.pc = "history"
    /\ t.ch \in channels
    /\ LET b == heap[t.binding]
           targets == Targets(b.ticket_type, b.opener_discord_id)
       IN IF targets = {}
          THEN tasks' = Exit(t)
          ELSE \E chat_id \in targets :
                  tasks' = Resume(t, RefreshIterate([t EXCEPT !.targets = targets],
                                                    heap, chat_id, targets \ {chat_id}))
    /\ UNCHANGED <<channel_text, templates>>
    /\ UNCHANGED <<registry, ticket_store, discord, panel, digest_sent>>

\* channel.history raised: the exception leaves the event handler.
RefreshHistoryFail(t) ==
    /\ t.kind = "refresh" /\ t.pc = "history"
    /\ tasks' = Exit(t)
    /\ UNCHANGED <<channel_text, templates>>
    /\ UNCHANGED <<registry, ticket_store, discord, panel, digest_sent>>

\* The end of the loop: "if changed: self.ticket_store.set(binding)".
RefreshFinish(t, h, changed) ==
    /\ tasks' = Exit(t)
    /\ IF changed
       THEN /\ bindings' = StoreSet(bindings, h, t.binding)
            /\ ticket_file' = StoreDocument(bindings', h)
       ELSE UNCHANGED <<bindings, ticket_file>>

\* A loop that a failed send or edit ends.
RefreshContinue_StopOnFailure(t, h, changed, failed) ==
    IF t.todo = {} \/ failed
    THEN RefreshFinish(t, h, changed)
    ELSE /\ \E chat_id \in t.todo :
               tasks' = Resume(t, RefreshIterate(
                                     [t EXCEPT !.changed = changed,
                                               !.any_failed = failed],
                                     h, chat_id, t.todo \ {chat_id}))
         /\ UNCHANGED <<bindings, ticket_file>>

\* The rest of the loop after one iteration's await.
RefreshContinue(t, h, changed, failed) ==
    IF t.todo = {}
    THEN RefreshFinish(t, h, changed)
    ELSE /\ \E chat_id \in t.todo :
               tasks' = Resume(t, RefreshIterate(
                                     [t EXCEPT !.changed = changed,
                                               !.any_failed = failed],
                                     h, chat_id, t.todo \ {chat_id}))
         /\ UNCHANGED <<bindings, ticket_file>>

\* send_message returned: the new id is recorded in the binding object.
RefreshSent(t) ==
    /\ t.kind = "refresh" /\ t.pc = "send"
    /\ LET id == NewMessageId(t.cur) IN
         /\ heap' = [heap EXCEPT ![t.binding].digest_message_ids =
                        [c \in DOMAIN @ \cup {t.cur} |->
                            IF c = t.cur THEN id ELSE @[c]]]
         /\ digest_sent' = digest_sent \cup {<<t.ch, t.cur, id>>}
    /\ RefreshContinue(t, heap', TRUE, t.any_failed)
    /\ UNCHANGED <<channel_text, templates>>
    /\ UNCHANGED <<registry, discord, panel>>

\* edit_message_text returned.
RefreshEdited(t) ==
    /\ t.kind = "refresh" /\ t.pc = "edit"
    /\ RefreshContinue(t, heap, t.changed, t.any_failed)
    /\ UNCHANGED <<channel_text, templates>>
    /\ UNCHANGED <<registry, heap, discord, panel, digest_sent>>

\* send_message or edit_message_text raised: logged, the loop goes on.
RefreshTgFail(t) ==
    /\ t.kind = "refresh" /\ t.pc \in {"send", "edit"}
    /\ RefreshContinue(t, heap, t.changed, TRUE)
    /\ UNCHANGED <<channel_text, templates>>
    /\ UNCHANGED <<registry, heap, discord, panel, digest_sent>>

(***************************************************************************)
(* notify_ticket: one iteration's head, up to the await of send_tg.        *)
(***************************************************************************)
NotifyIterate(t, chat_id, rest) ==
    [t EXCEPT !.pc = "notify", !.cur = chat_id, !.todo = rest]

(***************************************************************************)
(* CloseTicketButton.close_ticket and BridgeBot.close_ticket               *)
(***************************************************************************)
\* A button handler that closes whatever channel it is pressed in.
ClosePress_NoLookup(ch, limit) ==
    /\ CanSpawn(limit)
    /\ ch \in channels /\ ch \in close_buttons
    /\ tasks' = Spawn([Frame EXCEPT !.kind = "close", !.pc = "archive",
                                    !.ch = ch, !.binding = ch])
    /\ UNCHANGED <<channel_text, templates>>
    /\ UNCHANGED <<registry, ticket_store, discord, panel, digest_sent>>

\* The button handler up to its first await: the binding is looked up and
\* one of the two acknowledgements is sent.
ClosePress(ch, limit) ==
    /\ CanSpawn(limit)
    /\ ch \in channels /\ ch \in close_buttons
    /\ tasks' = Spawn([Frame EXCEPT !.kind = "close",
                                    !.pc = IF StoreGet(ch) = 0 THEN "not_ticket" ELSE "ack",
                                    !.ch = ch, !.binding = StoreGet(ch)])
    /\ UNCHANGED <<channel_text, templates>>
    /\ UNCHANGED <<registry, ticket_store, discord, panel, digest_sent>>

\* "Это не тикет-канал." was sent (or raised): the handler returns.
CloseNotTicket(t) ==
    /\ t.kind = "close" /\ t.pc = "not_ticket"
    /\ tasks' = Exit(t)
    /\ UNCHANGED <<channel_text, templates>>
    /\ UNCHANGED <<registry, ticket_store, discord, panel, digest_sent>>

\* "Тикет закрывается…" was sent: close_ticket starts with notify_ticket,
\* which resolves the targets and awaits the first send_tg.
CloseAck(t) ==
    /\ t.kind = "close" /\ t.pc = "ack"
    /\ LET b == heap[t.binding]
           targets == Targets(b.ticket_type, b.opener_discord_id)
       IN IF targets = {}
          THEN tasks' = Resume(t, [t EXCEPT !.pc = "archive"])
          ELSE \E chat_id \in targets :
                  tasks' = Resume(t, NotifyIterate([t EXCEPT !.targets = targets],
                                                   chat_id, targets \ {chat_id}))
    /\ UNCHANGED <<channel_text, templates>>
    /\ UNCHANGED <<registry, ticket_store, discord, panel, digest_sent>>

\* The acknowledgement raised: the exception leaves the handler.
CloseAckFail(t) ==
    /\ t.kind = "close" /\ t.pc = "ack"
    /\ tasks' = Exit(t)
    /\ UNCHANGED <<channel_text, templates>>
    /\ UNCHANGED <<registry, ticket_store, discord, panel, digest_sent>>

\* send_tg of the closure notice returned (ok) or raised (logged).
CloseNotified(t, ok) ==
    /\ t.kind = "close" /\ t.pc = "notify"
    /\ LET u == [t EXCEPT !.attempted = @ \cup {<<t.cur, "notice">>},
                          !.any_failed = @ \/ ~ok]
       IN IF t.todo = {}
          THEN tasks' = Resume(t, [u EXCEPT !.pc = "archive", !.cur = 0])
          ELSE \E chat_id \in t.todo :
                  tasks' = Resume(t, NotifyIterate(u, chat_id, t.todo \ {chat_id}))
    /\ UNCHANGED <<channel_text, templates>>
    /\ UNCHANGED <<registry, ticket_store, discord, panel, digest_sent>>

\* A close that goes on to channel.delete without removing the binding.
CloseRemove_KeepBinding(t, u) ==
    /\ UNCHANGED <<bindings, ticket_file>>
    /\ tasks' = Resume(t, [u EXCEPT !.pc = "delete", !.cur = 0])

\* self.ticket_store.remove(channel.id), up to the await of channel.delete.
CloseRemove(t, u) ==
    /\ bindings' = StoreRemove(bindings, t.ch)
    /\ ticket_file' = StoreDocument(bindings', heap)
    /\ tasks' = Resume(t, [u EXCEPT !.pc = "delete", !.cur = 0])

\* One iteration's head of "for chat_id in targets": the first send_document.
ArchiveIterate(t, chat_id, rest) ==
    [t EXCEPT !.pc = "file", !.cur = chat_id, !.todo = rest, !.file = 1]

\* A close that removes the binding as soon as the archive is collected,
\* before anything is delivered.
CloseArchived_RemoveFirst(t) ==
    /\ t.kind = "close" /\ t.pc = "archive"
    /\ t.ch \in channels
    /\ LET b == heap[t.binding]
           targets == Targets(b.ticket_type, b.opener_discord_id)
       IN IF targets = {}
          THEN CloseRemove(t, [t EXCEPT !.targets = targets])
          ELSE /\ \E chat_id \in targets :
                     tasks' = Resume(t, ArchiveIterate([t EXCEPT !.targets = targets],
                                                       chat_id, targets \ {chat_id}))
               /\ bindings' = StoreRemove(bindings, t.ch)
               /\ ticket_file' = StoreDocument(bindings', heap)
    /\ UNCHANGED <<channel_text, templates>>
    /\ UNCHANGED <<registry, heap, discord, panel, digest_sent>>

\* _collect_ticket_archive returned: the targets are resolved again.
CloseArchived(t) ==
    /\ t.kind = "close" /\ t.pc = "archive"
    /\ t.ch \in channels
    /\ LET b == heap[t.binding]
           targets == Targets(b.ticket_type, b.opener_discord_id)
       IN IF targets = {}
          THEN CloseRemove(t, [t EXCEPT !.targets = targets])
          ELSE /\ \E chat_id \in targets :
                     tasks' = Resume(t, ArchiveIterate([t EXCEPT !.targets = targets],
                                                       chat_id, targets \ {chat_id}))
               /\ UNCHANGED <<bindings, ticket_file>>
    /\ UNCHANGED <<channel_text, templates>>
    /\ UNCHANGED <<registry, heap, discord, panel, digest_sent>>

\* A close that drops the binding when the archive cannot be collected.
CloseArchiveFail_DropsBinding(t) ==
    /\ t.kind = "close" /\ t.pc = "archive"
    /\ tasks' = Exit(t)
    /\ bindings' = StoreRemove(bindings, t.ch)
    /\ ticket_file' = StoreDocument(bindings', heap)
    /\ UNCHANGED <<channel_text, templates>>
    /\ UNCHANGED <<registry, heap, discord, panel, digest_sent>>

\* _collect_ticket_archive raised: close_ticket is left by the exception.
CloseArchiveFail(t) ==
    /\ t.kind = "close" /\ t.pc = "archive"
    /\ tasks' = Exit(t)
    /\ UNCHANGED <<channel_text, templates>>
    /\ UNCHANGED <<registry, ticket_store, discord, panel, digest_sent>>

\* One try around the whole loop over the files: a send_document that
\* raises skips the files left for that chat.
CloseFileSent_SkipRestOnFailure(t, ok) ==
    /\ t.kind = "close" /\ t.pc = "file"
    /\ LET u == [t EXCEPT !.attempted = @ \cup {<<t.cur, ArchiveFiles[t.file]>>},
                          !.any_failed = @ \/ ~ok]
       IN tasks' = Resume(t, IF ok /\ t.file < Len(ArchiveFiles)
                             THEN [u EXCEPT !.file = @ + 1]
                             ELSE [u EXCEPT !.pc = "rating", !.file = 0])
    /\ UNCHANGED <<channel_text, templates>>
    /\ UNCHANGED <<registry, ticket_store, discord, panel, digest_sent>>

\* send_document of one archive file returned (ok) or raised (logged).
CloseFileSent(t, ok) ==
    /\ t.kind = "close" /\ t.pc = "file"
    /\ LET u == [t EXCEPT !.attempted = @ \cup {<<t.cur, ArchiveFiles[t.file]>>},
                          !.any_failed = @ \/ ~ok]
       IN tasks' = Resume(t, IF t.file < Len(ArchiveFiles)
                             THEN [u EXCEPT !.file = @ + 1]
                             ELSE [u EXCEPT !.pc = "rating", !.file = 0])
    /\ UNCHANGED <<channel_text, templates>>
    /\ UNCHANGED <<registry, ticket_store, discord, panel, digest_sent>>

\* _send_ticket_rating returned (ok) or raised (logged).
CloseRated(t, ok) ==
    /\ t.kind = "close" /\ t.pc = "rating"
    /\ LET u == [t EXCEPT !.attempted = @ \cup {<<t.cur, "rating">>},
                          !.any_failed = @ \/ ~ok]
       IN IF t.todo = {}
          THEN CloseRemove(t, u)
          ELSE /\ \E chat_id \in t.todo :
                     tasks' = Resume(t, ArchiveIterate(u, chat_id, t.todo \ {chat_id}))
               /\ UNCHANGED <<bindings, ticket_file>>
    /\ UNCHANGED <<channel_text, templates>>
    /\ UNCHANGED <<registry, heap, discord, panel, digest_sent>>

\* channel.delete returned: the channel is gone.
CloseDeleted(t) ==
    /\ t.kind = "close" /\ t.pc = "delete"
    /\ t.ch \in channels
    /\ channels' = channels \ {t.ch}
    /\ close_buttons' = close_buttons \ {t.ch}
    /\ tasks' = Exit(t)
    /\ UNCHANGED <<channel_text, templates>>
    /\ UNCHANGED <<registry, ticket_store, next_channel, panel, digest_sent>>

\* channel.delete raised.
CloseDeleteFail(t) ==
    /\ t.kind = "close" /\ t.pc = "delete"
    /\ tasks' = Exit(t)
    /\ UNCHANGED <<channel_text, templates>>
    /\ UNCHANGED <<registry, ticket_store, discord, panel, digest_sent>>

(***************************************************************************)
(* TicketOpenView                                                          *)
(***************************************************************************)
PanelButton(action, url, row) == [action |-> action, url |-> url, row |-> row]

\* The two buttons of a post without panel_buttons.
DefaultButtons == <<PanelButton("order", "", 0), PanelButton("support", "", 0)>>

\* A sort that is not stable: the element goes before those of its row.
RECURSIVE InsertByRow_BeforeEquals(_, _)
InsertByRow_BeforeEquals(sorted, b) ==
    IF sorted = <<>> THEN <<b>>
    ELSE IF Head(sorted).row < b.row
         THEN <<Head(sorted)>> \o InsertByRow_BeforeEquals(Tail(sorted), b)
         ELSE <<b>> \o sorted

\* list.sort(key=row): a stable insertion into a sorted list, after every
\* element whose key is not greater.
RECURSIVE InsertByRow(_, _)
InsertByRow(sorted, b) ==
    IF sorted = <<>> THEN <<b>>
    ELSE IF Head(sorted).row <= b.row
         THEN <<Head(sorted)>> \o InsertByRow(Tail(sorted), b)
         ELSE <<b>> \o sorted

RECURSIVE SortByRow(_)
SortByRow(buttons) ==
    IF buttons = <<>> THEN <<>>
    ELSE InsertByRow(SortByRow(SubSeq(buttons, 1, Len(buttons) - 1)),
                     buttons[Len(buttons)])

\* The list TicketOpenView.__init__ iterates over.
ViewButtons(panel_buttons) ==
    SortByRow(IF panel_buttons = <<>> THEN DefaultButtons ELSE panel_buttons)

\* Callbacks that close over the loop variable: every callback sees the
\* action of the last iteration that defined one.
ViewCallback_LateBinding(buttons, i) ==
    LET Own(k) == IF buttons[k].action = "url" /\ buttons[k].url # "" THEN ""
                  ELSE IF buttons[k].action \in {"order", "support"}
                       THEN buttons[k].action ELSE ""
        defined == {k \in 1..Len(buttons) : Own(k) # ""}
    IN IF Own(i) = "" THEN ""
       ELSE Own(CHOOSE k \in defined : \A m \in defined : m <= k)

\* The ticket_type the callback of the i-th iteration passes to _safe_create
\* ("" when the iteration registers no callback): each cb binds its own
\* default argument.
ViewCallback(buttons, i) ==
    IF buttons[i].action = "url" /\ buttons[i].url # "" THEN ""
    ELSE IF buttons[i].action = "order" THEN "order"
    ELSE IF buttons[i].action = "support" THEN "support"
    ELSE ""

\* The enumerate() indexes (from 1 here) of the items that dispatch to
\* _safe_create, by custom_id "panel:<name>:<i>".
ViewCallbackIds(buttons) ==
    {i \in 1..Len(buttons) : ViewCallback(buttons, i) # ""}

(***************************************************************************)
(* TicketOpenView._safe_create and BridgeBot.create_ticket                 *)
(***************************************************************************)
\* A member presses the i-th button of the published panel: the code up to
\* the await of interaction.response.defer.
CreatePress(member, i, limit) ==
    /\ CanSpawn(limit)
    /\ LobbyChannel \in channels
    /\ i \in ViewCallbackIds(ViewButtons(panel))
    /\ tasks' = Spawn([Frame EXCEPT
                          !.kind = "create", !.pc = "defer",
                          !.ticket_type = ViewCallback(ViewButtons(panel), i),
                          !.opener = member,
                          !.declared = ViewButtons(panel)[i].action])
    /\ UNCHANGED <<channel_text, templates>>
    /\ UNCHANGED <<registry, ticket_store, discord, panel, digest_sent>>

\* defer returned; guild.me is found (the task goes on to create the
\* channel) or not (the followup is sent and create_ticket returns).
CreateDeferred(t, me_found) ==
    /\ t.kind = "create" /\ t.pc = "defer"
    /\ tasks' = Resume(t, [t EXCEPT !.pc = IF me_found THEN "create_channel"
                                           ELSE "no_me"])
    /\ UNCHANGED <<channel_text, templates>>
    /\ UNCHANGED <<registry, ticket_store, discord, panel, digest_sent>>

\* "Не найден bot member" was sent (or raised into _safe_create).
CreateNoMe(t) ==
    /\ t.kind = "create" /\ t.pc = "no_me"
    /\ tasks' = Exit(t)
    /\ UNCHANGED <<channel_text, templates>>
    /\ UNCHANGED <<registry, ticket_store, discord, panel, digest_sent>>

\* An await of create_ticket raised: _safe_create catches the exception and
\* awaits the error acknowledgement.
CreateFail(t) ==
    /\ t.kind = "create"
    /\ t.pc \in {"defer", "create_channel", "greet", "followup"}
    /\ tasks' = Resume(t, [t EXCEPT !.pc = "error_ack"])
    /\ UNCHANGED <<channel_text, templates>>
    /\ UNCHANGED <<registry, ticket_store, discord, panel, digest_sent>>

\* The error acknowledgement was sent (or raised).
CreateErrorAck(t) ==
    /\ t.kind = "create" /\ t.pc = "error_ack"
    /\ tasks' = Exit(t)
    /\ UNCHANGED <<channel_text, templates>>
    /\ UNCHANGED <<registry, ticket_store, discord, panel, digest_sent>>

\* TicketBinding(ticket_channel_id=..., opener_discord_id=..., ticket_type=...,
\* digest_message_ids={})
NewBinding(channel_id, opener, ticket_type) ==
    [ticket_channel_id |-> channel_id, opener_discord_id |-> opener,
     ticket_type |-> ticket_type, digest_message_ids |-> EmptyFn]

\* create_text_channel returned the new channel: the binding is stored, up
\* to the await of ticket_channel.send.
CreateChannel(t) ==
    /\ t.kind = "create" /\ t.pc = "create_channel"
    /\ next_channel < MaxChannels
    /\ LET c == next_channel + 1 IN
         /\ next_channel' = c
         /\ channels' = channels \cup {c}
         /\ heap' = [r \in DOMAIN heap \cup {c} |->
                        IF r = c THEN NewBinding(c, t.opener, t.ticket_type)
                        ELSE heap[r]]
         /\ bindings' = StoreSet(bindings, heap', c)
         /\ ticket_file' = StoreDocument(bindings', heap')
         /\ tasks' = Resume(t, [t EXCEPT !.pc = "greet", !.ch = c, !.binding = c])
    /\ UNCHANGED <<channel_text, templates>>
    /\ UNCHANGED <<registry, close_buttons, panel, digest_sent>>

\* A create for which an empty set of targets is an error.
CreateGreeted_NoTargetsIsError(t) ==
    /\ t.kind = "create" /\ t.pc = "greet"
    /\ t.ch \in channels
    /\ close_buttons' = close_buttons \cup {t.ch}
    /\ LET targets == Targets(t.ticket_type, t.opener)
       IN IF targets = {}
          THEN tasks' = Resume(t, [t EXCEPT !.pc = "error_ack"])
          ELSE \E chat_id \in targets :
                  tasks' = Resume(t, NotifyIterate([t EXCEPT !.targets = targets],
                                                   chat_id, targets \ {chat_id}))
    /\ UNCHANGED <<channel_text, templates>>
    /\ UNCHANGED <<registry, ticket_store, channels, next_channel, panel, digest_sent>>

\* ticket_channel.send returned: the greeting with the close button is in
\* the channel; notify_ticket resolves the targets and awaits send_tg.
CreateGreeted(t) ==
    /\ t.kind = "create" /\ t.pc = "greet"
    /\ t.ch \in channels
    /\ close_buttons' = close_buttons \cup {t.ch}
    /\ LET targets == Targets(t.ticket_type, t.opener)
       IN IF targets = {}
          THEN tasks' = Resume(t, [t EXCEPT !.pc = "followup"])
          ELSE \E chat_id \in targets :
                  tasks' = Resume(t, NotifyIterate([t EXCEPT !.targets = targets],
                                                   chat_id, targets \ {chat_id}))
    /\ UNCHANGED <<channel_text, templates>>
    /\ UNCHANGED <<registry, ticket_store, channels, next_channel, panel, digest_sent>>

\* send_tg of the "ticket opened" notice returned (ok) or raised (logged).
CreateNotified(t, ok) ==
    /\ t.kind = "create" /\ t.pc = "notify"
    /\ LET u == [t EXCEPT !.attempted = @ \cup {<<t.cur, "opened">>},
                          !.any_failed = @ \/ ~ok]
       IN IF t.todo = {}
          THEN tasks' = Resume(t, [u EXCEPT !.pc = "followup", !.cur = 0])
          ELSE \E chat_id \in t.todo :
                  tasks' = Resume(t, NotifyIterate(u, chat_id, t.todo \ {chat_id}))
    /\ UNCHANGED <<channel_text, templates>>
    /\ UNCHANGED <<registry, ticket_store, discord, panel, digest_sent>>

\* "Тикет создан" was sent: create_ticket returns.
CreateFollowup(t) ==
    /\ t.kind = "create" /\ t.pc = "followup"
    /\ tasks' = Exit(t)
    /\ UNCHANGED <<channel_text, templates>>
    /\ UNCHANGED <<registry, ticket_store, discord, panel, digest_sent>>

(***************************************************************************)
(* The bot after run() built its stores: no ticket, no task.               *)
(***************************************************************************)
\* The registries a run of the ticket machine starts from: an empty one,
\* and one where member 1 is linked to chat 555, user 11 is an admin
\* registered in chat 777 and user 12 a builder registered in chat 555.
EmptyRegistry ==
    [admins |-> {}, links |-> EmptyFn, roles |-> EmptyFn, order |-> <<>>,
     role_chats |-> EmptyFn]
LinkedRegistry ==
    [admins |-> {}, links |-> (1 :> 555),
     roles |-> (11 :> "admin" @@ 12 :> "builder"), order |-> <<11, 12>>,
     role_chats |-> (11 :> 777 @@ 12 :> 555)]
InitRegistries == {EmptyRegistry, LinkedRegistry}

InitStores ==
    /\ heap = EmptyFn
    /\ bindings = EmptyFn
    /\ ticket_file = EmptyFn
    /\ channels = {LobbyChannel}
    /\ next_channel = 0
    /\ close_buttons = {}
    /\ tasks = EmptyBag
    /\ digest_sent = {}

\* No message in the channel, no digest built, no template loaded.
InitContent ==
    /\ history = <<>>
    /\ digest = NoDigest
    /\ raw = NoDocument
    /\ post = NoPost
    /\ request = NoRequest
    /\ response = NoResponse
    /\ published = NoMessage
    /\ post_store = EmptyFn
    /\ posts_file = EmptyFn

Init ==
    /\ \E r \in InitRegistries :
          /\ tg_admin_ids = r.admins
          /\ links = r.links
          /\ roles = r.roles
          /\ roles_order = r.order
          /\ role_chats = r.role_chats
    /\ panel = <<>>
    /\ InitStores
    /\ InitContent

(***************************************************************************)
(* publish_post: the view of a published template.                         *)
(***************************************************************************)
ButtonConfigs ==
    {PanelButton(a, "", r) : a \in {"order", "support"}, r \in {0, 1}}
        \cup {PanelButton("none", "", 0), PanelButton("url", "", 0),
              PanelButton("url", "https://x", 0)}

PanelLists == UNION {[1..n -> ButtonConfigs] : n \in 0..MaxButtons}

\* publish_post sends TicketOpenView(bot, runtime_post) when the post is a
\* ticket panel or has buttons.
Publish(is_ticket_panel, buttons) ==
    /\ LobbyChannel \in channels
    /\ is_ticket_panel \/ buttons # <<>>
    /\ panel' = buttons
    /\ UNCHANGED <<channel_text, templates>>
    /\ UNCHANGED <<registry, ticket_store, discord, tasks, digest_sent>>

(***************************************************************************)
(* The Telegram commands that write the registry.                          *)
(***************************************************************************)
can_manage_roles(uid) == uid \in tg_admin_ids

\* TgRoleStore.set_role
SetRole(tg_user_id, role, chat_id) ==
    /\ roles' = [u \in DOMAIN roles \cup {tg_user_id} |->
                    IF u = tg_user_id THEN role ELSE roles[u]]
    /\ roles_order' = IF tg_user_id \in DOMAIN roles THEN roles_order
                      ELSE Append(roles_order, tg_user_id)
    /\ role_chats' = IF chat_id # 0
                     THEN [u \in DOMAIN role_chats \cup {tg_user_id} |->
                              IF u = tg_user_id THEN chat_id ELSE role_chats[u]]
                     ELSE role_chats

\* /bind_discord <discord_user_id>, sent by user in chat.
tg_bind_discord(user, chat, discord_user_id) ==
    /\ links' = [m \in DOMAIN links \cup {discord_user_id} |->
                    IF m = discord_user_id THEN chat ELSE links[m]]
    /\ role_chats' = [u \in DOMAIN role_chats \cup {user} |->
                         IF u = user THEN chat ELSE role_chats[u]]
    /\ UNCHANGED <<channel_text, templates>>
    /\ UNCHANGED <<tg_admin_ids, roles, roles_order, ticket_store, discord, panel,
                   tasks, digest_sent>>

\* /set_role <tg_user_id> <role> [chat_id], sent by caller (chat_id 0: none).
tg_set_role(caller, tg_user_id, role, chat_id) ==
    /\ IF can_manage_roles(caller) /\ role \in Roles
       THEN SetRole(tg_user_id, role, chat_id)
       ELSE UNCHANGED <<roles, roles_order, role_chats>>
    /\ UNCHANGED <<channel_text, templates>>
    /\ UNCHANGED <<tg_admin_ids, links, ticket_store, discord, panel, tasks, digest_sent>>

\* A registration that lets anyone take any role.
tg_register_me_AnyRole(user, chat, role) ==
    /\ IF role \in Roles
       THEN SetRole(user, role, chat)
       ELSE UNCHANGED <<roles, roles_order, role_chats>>
    /\ UNCHANGED <<channel_text, templates>>
    /\ UNCHANGED <<tg_admin_ids, links, ticket_store, discord, panel, tasks, digest_sent>>

\* /register_me <role>, sent by user in chat.
tg_register_me(user, chat, role) ==
    /\ IF role \in Roles /\ ~(role \in {"admin", "manager"} /\ ~can_manage_roles(user))
       THEN SetRole(user, role, chat)
       ELSE UNCHANGED <<roles, roles_order, role_chats>>
    /\ UNCHANGED <<channel_text, templates>>
    /\ UNCHANGED <<tg_admin_ids, links, ticket_store, discord, panel, tasks, digest_sent>>

\* What a user may type as a role.
RoleArgs == Roles \cup {"owner"}

\* A call of _notification_targets: the caller holds the returned set.
Resolve(ticket_type, opener_discord_id) ==
    /\ tasks' = SetToBag({[Frame EXCEPT !.kind = "resolve", !.pc = "resolved",
                                        !.ticket_type = ticket_type,
                                        !.opener = opener_discord_id,
                                        !.targets = Targets(ticket_type,
                                                            opener_discord_id)]})
    /\ UNCHANGED <<channel_text, templates>>
    /\ UNCHANGED <<registry, ticket_store, discord, panel, digest_sent>>

(***************************************************************************)
(* Messages in a ticket channel and the digest built from them.            *)
(***************************************************************************)
\* A message of a member: the length of its stripped content and of the
\* joined names of its attachments.
HumanMessage(content, files) ==
    [bot |-> FALSE, name |-> 5, content |-> content, files |-> files]

\* A message of a bot (m.author.bot).
BotMessage == [bot |-> TRUE, name |-> 3, content |-> 1, files |-> 0]

ShortMessages == {HumanMessage(1, 0)}

\* An empty message, one with only an attachment, and two long ones.
TextMessages ==
    {HumanMessage(0, 0), HumanMessage(0, 9), HumanMessage(1879, 0), HumanMessage(1880, 0)}

\* The runs of bot messages: one message, or as many as one history call
\* fetches.
BotBursts == {1, HistoryLimit}

Humans(hist) == {i \in 1..Len(hist) : ~hist[i].bot}
BotRuns(hist) == {i \in 1..Len(hist) : hist[i].bot /\ (i = 1 \/ ~hist[i - 1].bot)}

\* _update_ticket_digest on the last created channel, its awaits taken
\* together: what the refresh hands to Telegram (nothing when no target is
\* resolved).
Refreshed(hist) ==
    LET b == heap[StoreGet(next_channel)]
    IN IF Targets(b.ticket_type, b.opener_discord_id) = {} THEN digest
       ELSE [text |-> BuildDigest(b.ticket_type, hist), seen |-> Len(hist)]

\* A member posts a message in the ticket channel.
on_message(m) ==
    /\ next_channel \in channels /\ StoreGet(next_channel) # 0
    /\ Cardinality(Humans(history)) < MaxHumans
    /\ history' = Append(history, m)
    /\ digest' = Refreshed(history')
    /\ UNCHANGED <<templates, registry, ticket_store, discord, panel, tasks, digest_sent>>

\* Bots post k messages: on_message returns for each (message.author.bot).
BotPosts(k) ==
    /\ next_channel \in channels
    /\ IF history = <<>> THEN TRUE ELSE ~history[Len(history)].bot
    /\ Cardinality(BotRuns(history)) < MaxBursts
    /\ history' = history \o [i \in 1..k |-> BotMessage]
    /\ UNCHANGED <<digest, templates, registry, ticket_store, discord, panel, tasks,
                   digest_sent>>

\* A member edits a message of theirs.
on_message_edit ==
    /\ next_channel \in channels /\ StoreGet(next_channel) # 0
    /\ Humans(history) # {}
    /\ digest' = Refreshed(history)
    /\ UNCHANGED <<history, templates, registry, ticket_store, discord, panel, tasks,
                   digest_sent>>

\* The bot with one open ticket loaded from tickets.json.
DigestInit ==
    /\ \E r \in InitRegistries :
          /\ tg_admin_ids = r.admins
          /\ links = r.links
          /\ roles = r.roles
          /\ roles_order = r.order
          /\ role_chats = r.role_chats
    /\ panel = <<>>
    /\ \E ticket_type \in TicketTypes :
          heap = (1 :> NewBinding(1, 1, ticket_type))
    /\ bindings = (1 :> 1)
    /\ ticket_file = StoreDocument(bindings, heap)
    /\ channels = {LobbyChannel, 1}
    /\ next_channel = 1
    /\ close_buttons = {1}
    /\ tasks = EmptyBag
    /\ digest_sent = {}
    /\ InitContent

(***************************************************************************)
(* Specifications.                                                         *)
(***************************************************************************)
RefreshSteps ==
    \/ \E t \in Running : RefreshHistory(t)
    \/ \E t \in Running : RefreshHistoryFail(t)
    \/ \E t \in Running : RefreshSent(t)
    \/ \E t \in Running : RefreshEdited(t)
    \/ \E t \in Running : RefreshTgFail(t)

CloseSteps ==
    \/ \E t \in Running : CloseNotTicket(t)
    \/ \E t \in Running : CloseAck(t)
    \/ \E t \in Running : CloseAckFail(t)
    \/ \E t \in Running, ok \in BOOLEAN : CloseNotified(t, ok)
    \/ \E t \in Running : CloseArchived(t)
    \/ \E t \in Running : CloseArchiveFail(t)
    \/ \E t \in Running, ok \in BOOLEAN : CloseFileSent(t, ok)
    \/ \E t \in Running, ok \in BOOLEAN : CloseRated(t, ok)
    \/ \E t \in Running : CloseDeleted(t)
    \/ \E t \in Running : CloseDeleteFail(t)

CreateSteps ==
    \/ \E t \in Running, me_found \in BOOLEAN : CreateDeferred(t, me_found)
    \/ \E t \in Running : CreateNoMe(t)
    \/ \E t \in Running : CreateFail(t)
    \/ \E t \in Running : CreateErrorAck(t)
    \/ \E t \in Running : CreateChannel(t)
    \/ \E t \in Running : CreateGreeted(t)
    \/ \E t \in Running, ok \in BOOLEAN : CreateNotified(t, ok)
    \/ \E t \in Running : CreateFollowup(t)

\* A suspended task resumes: its awaited call returned or raised.
Resumption == RefreshSteps \/ CloseSteps \/ CreateSteps

\* An event of Discord starts a handler.
Event(limit) ==
    \/ \E ch \in channels : RefreshStart(ch, limit)
    \/ \E ch \in channels : ClosePress(ch, limit)
    \/ \E member \in Members :
          \E i \in 1..Len(ViewButtons(panel)) : CreatePress(member, i, limit)

\* The event loop: handlers overlap at their awaits.
Next == Event(MaxTasks) \/ Resumption

Spec == Init /\ [][Next]_vars

\* A delivery of a close of a channel returns or raises: the archive file
\* or the rating prompt awaited by a close of that channel.
CloseDelivery(ch) ==
    \E t \in Running, ok \in BOOLEAN :
        /\ t.ch = ch
        /\ CloseFileSent(t, ok) \/ CloseRated(t, ok)

\* The event loop when every awaited Telegram call of a close comes back.
FairSpec == Spec /\ \A ch \in TicketChannels : WF_vars(CloseDelivery(ch))

\* Handlers that do not overlap: an event is taken when no task is in flight.
NextSeq == Event(1) \/ Resumption

SeqSpec == Init /\ [][NextSeq]_vars

\* Panels: any template is published, its buttons are pressed.
PanelNext ==
    \/ /\ tasks = EmptyBag
       /\ \E is_ticket_panel \in BOOLEAN, buttons \in PanelLists :
             Publish(is_ticket_panel, buttons)
    \/ \E member \in Members :
          \E i \in 1..Len(ViewButtons(panel)) : CreatePress(member, i, 1)
    \/ CreateSteps

PanelSpec == Init /\ [][PanelNext]_vars

\* The registry: any sequence of the Telegram commands, under any
\* configured TG_ADMIN_IDS.
RegInit ==
    /\ tg_admin_ids \in SUBSET TgUsers
    /\ links = EmptyFn
    /\ roles = EmptyFn
    /\ roles_order = <<>>
    /\ role_chats = EmptyFn
    /\ panel = <<>>
    /\ InitStores
    /\ InitContent

RegNext ==
    \/ \E user \in TgUsers, chat \in Chats, m \in Members :
          tg_bind_discord(user, chat, m)
    \/ \E caller \in TgUsers, u \in TgUsers, role \in RoleArgs, chat \in Chats \cup {0} :
          tg_set_role(caller, u, role, chat)
    \/ \E user \in TgUsers, chat \in Chats, role \in RoleArgs :
          tg_register_me(user, chat, role)

RegSpec == RegInit /\ [][RegNext]_vars

\* The registry and its resolver: the commands, and calls of the resolver
\* between them.
ResolveNext ==
    \/ RegNext
    \/ \E ticket_type \in TicketTypes, opener \in Members : Resolve(ticket_type, opener)

ResolveSpec == RegInit /\ [][ResolveNext]_vars

\* The messages a digest is collected from: short messages of members
\* between runs of bot messages.
HistoryNext ==
    \/ \E m \in ShortMessages : on_message(m)
    \/ \E k \in BotBursts : BotPosts(k)
    \/ on_message_edit

HistorySpec == DigestInit /\ [][HistoryNext]_vars

\* The text of a digest: messages of members of any length.
TextNext ==
    \/ \E m \in TextMessages : on_message(m)
    \/ on_message_edit

TextSpec == DigestInit /\ [][TextNext]_vars

(***************************************************************************)
(* Templates.  A stored template is a JSON document; a value of it is      *)
(* missing (the key is not in the dict), null, a bool, an int, a string,   *)
(* a list or a dict.  A string is a word, with or without upper-case       *)
(* letters, with or without whitespace around it.                          *)
(***************************************************************************)
Missing == [t |-> "missing"]
Null == [t |-> "null"]
Flag(b) == [t |-> "bool", b |-> b]
Number(i) == [t |-> "int", i |-> i]
String(word, cased, padded) ==
    [t |-> "str", word |-> word, cased |-> cased, padded |-> padded]
Plain(word) == String(word, FALSE, FALSE)
Array(items) == [t |-> "list", items |-> items]

\* dict.get(key, default)
Get(v, default) == IF v = Missing THEN default ELSE v

\* str(v) of a scalar: str(None) is "None", str(True) is "True".
PyStr(v) ==
    CASE v.t = "str" -> v
      [] v.t = "null" -> String("none", TRUE, FALSE)
      [] v.t = "bool" -> String(IF v.b THEN "true" ELSE "false", TRUE, FALSE)
      [] v.t = "int" -> Plain(ToString(v.i))

\* s.strip() and s.lower()
Strip(s) == [s EXCEPT !.padded = FALSE]
Lower(s) == [s EXCEPT !.cased = FALSE]

\* bool(v)
Truthy(v) ==
    CASE v.t = "str" -> v.word # "" \/ v.padded
      [] v.t = "null" -> FALSE
      [] v.t = "bool" -> v.b
      [] v.t = "int" -> v.i # 0
      [] v.t = "list" -> v.items # <<>>
      [] v.t = "dict" -> TRUE

\* v or d
OrElse(v, d) == IF Truthy(v) THEN v ELSE d

\* int(v): the number, or the exception int() raises.
Literals == -9..9
PyInt(v) ==
    CASE v.t = "int" -> [raised |-> FALSE, i |-> v.i]
      [] v.t = "bool" -> [raised |-> FALSE, i |-> IF v.b THEN 1 ELSE 0]
      [] v.t = "str" ->
           IF \E i \in Literals : ToString(i) = v.word
           THEN [raised |-> FALSE,
                 i |-> CHOOSE i \in Literals : ToString(i) = v.word]
           ELSE [raised |-> TRUE, i |-> 0]
      [] OTHER -> [raised |-> TRUE, i |-> 0]

SUPPORTED_STYLES ==
    {Plain("primary"), Plain("secondary"), Plain("success"), Plain("danger")}

normalize_style_name(name) ==
    LET style == Lower(Strip(OrElse(name, Plain(""))))
    IN IF style \in SUPPORTED_STYLES THEN style ELSE Plain("secondary")

\* A row that is taken as it is declared.
ButtonRow_Unclamped(btn) ==
    LET parsed == PyInt(Get(btn.row, Number(0)))
    IN IF parsed.raised THEN 0 ELSE parsed.i

\* The row of a raw button: int(btn.get("row", 0)), 0 when int() raises,
\* then max(0, min(4, row)).
ButtonRow(btn) ==
    LET parsed == PyInt(Get(btn.row, Number(0)))
        row == IF parsed.raised THEN 0 ELSE parsed.i
    IN IF row < 0 THEN 0 ELSE IF row > 4 THEN 4 ELSE row

ButtonAction(btn) ==
    LET action == Lower(Strip(PyStr(Get(btn.action, Plain("none")))))
        named == IF action = Plain("link") THEN Plain("url") ELSE action
    IN IF named \in {Plain("order"), Plain("support"), Plain("url"), Plain("none")}
       THEN named
       ELSE Plain("none")

\* PanelButton(label=..., emoji=..., style=..., action=..., url=..., row=...)
\* of one raw button.
ButtonOf(btn) ==
    [label |-> PyStr(Get(btn.label, String("button", TRUE, FALSE))),
     emoji |-> Strip(PyStr(Get(btn.emoji, Plain("")))),
     style |-> normalize_style_name(PyStr(Get(btn.style, Plain("secondary")))),
     action |-> ButtonAction(btn),
     url |-> OrElse(Strip(PyStr(Get(btn.url, Plain("")))), Null),
     row |-> Number(ButtonRow(btn))]

\* ExtraBlock(**clean_block): the fields of the block that are in the dict,
\* the defaults of the dataclass for the others.
BlockOf(block) ==
    [title |-> Get(block.title, Plain("")),
     description |-> Get(block.description, Plain("")),
     color_hex |-> Get(block.color_hex, String("2ecc71", TRUE, FALSE)),
     image_url |-> Get(block.image_url, Null),
     image_position |-> Get(block.image_position, Plain("bottom"))]

Dicts(items) == SelectSeq(items, LAMBDA item : item.t = "dict")

\* A legacy block that is appended whenever split_enabled is set.
SplitBlock_WheneverEnabled(data) ==
    IF Truthy(Get(data.split_enabled, Flag(FALSE)))
    THEN <<[title |-> Strip(PyStr(Get(data.split_title, Plain("")))),
            description |-> Strip(PyStr(Get(data.split_description, Plain("")))),
            color_hex |-> String("2ecc71", TRUE, FALSE),
            image_url |-> Null,
            image_position |-> Plain("bottom")]>>
    ELSE <<>>

\* Legacy migration: the blocks the old split_* fields add (one or none).
SplitBlock(data) ==
    LET split_enabled == Truthy(Get(data.split_enabled, Flag(FALSE)))
        split_title == Strip(PyStr(Get(data.split_title, Plain(""))))
        split_description == Strip(PyStr(Get(data.split_description, Plain(""))))
        split_color_hex ==
            Strip(PyStr(Get(data.split_color_hex,
                            Get(data.color_hex, String("2ecc71", TRUE, FALSE)))))
    IN IF split_enabled /\ (Truthy(split_title) \/ Truthy(split_description))
       THEN <<[title |-> split_title,
               description |-> split_description,
               color_hex |-> OrElse(split_color_hex, String("2ecc71", TRUE, FALSE)),
               image_url |-> Null,
               image_position |-> Plain("bottom")]>>
       ELSE <<>>

normalize_saved_post(data) ==
    LET raw_blocks == Dicts(OrElse(Get(data.extra_blocks, Array(<<>>)), Array(<<>>)).items)
        raw_panel_buttons ==
            Dicts(OrElse(Get(data.panel_buttons, Array(<<>>)), Array(<<>>)).items)
        blocks == [i \in 1..Len(raw_blocks) |-> BlockOf(raw_blocks[i])]
    IN [name |-> Get(data.name, Plain("post")),
        channel_id |-> Get(data.channel_id, Number(0)),
        title |-> Get(data.title, Plain("")),
        description |-> Get(data.description, Plain("")),
        color_hex |-> Get(data.color_hex, String("2ecc71", TRUE, FALSE)),
        image_url |-> Get(data.image_url, Null),
        is_ticket_panel |-> Get(data.is_ticket_panel, Flag(FALSE)),
        gradient_start_hex |-> Get(data.gradient_start_hex, String("2ecc71", TRUE, FALSE)),
        gradient_end_hex |-> Get(data.gradient_end_hex, String("5865f2", TRUE, FALSE)),
        order_style |-> normalize_style_name(PyStr(Get(data.order_style, Plain("success")))),
        support_style |-> normalize_style_name(PyStr(Get(data.support_style, Plain("primary")))),
        order_emoji |-> Strip(PyStr(Get(data.order_emoji, Plain("receipt")))),
        support_emoji |-> Strip(PyStr(Get(data.support_emoji, Plain("lifebuoy")))),
        panel_buttons |->
            [i \in 1..Len(raw_panel_buttons) |-> ButtonOf(raw_panel_buttons[i])],
        extra_blocks |-> blocks \o SplitBlock(data)]

\* asdict(post), written as JSON and read back: every field of the
\* dataclasses is a key, None is null, and there is no split_* key.
AsDict(p) ==
    [name |-> p.name,
     channel_id |-> p.channel_id,
     title |-> p.title,
     description |-> p.description,
     color_hex |-> p.color_hex,
     image_url |-> p.image_url,
     is_ticket_panel |-> p.is_ticket_panel,
     gradient_start_hex |-> p.gradient_start_hex,
     gradient_end_hex |-> p.gradient_end_hex,
     order_style |-> p.order_style,
     support_style |-> p.support_style,
     order_emoji |-> p.order_emoji,
     support_emoji |-> p.support_emoji,
     panel_buttons |->
        Array([i \in 1..Len(p.panel_buttons) |->
                 [t |-> "dict",
                  label |-> p.panel_buttons[i].label,
                  emoji |-> p.panel_buttons[i].emoji,
                  style |-> p.panel_buttons[i].style,
                  action |-> p.panel_buttons[i].action,
                  url |-> p.panel_buttons[i].url,
                  row |-> p.panel_buttons[i].row]]),
     extra_blocks |->
        Array([i \in 1..Len(p.extra_blocks) |->
                 [t |-> "dict",
                  title |-> p.extra_blocks[i].title,
                  description |-> p.extra_blocks[i].description,
                  color_hex |-> p.extra_blocks[i].color_hex,
                  image_url |-> p.extra_blocks[i].image_url,
                  image_position |-> p.extra_blocks[i].image_position]]),
     split_enabled |-> Missing,
     split_title |-> Missing,
     split_description |-> Missing,
     split_color_hex |-> Missing]

\* The raw buttons a stored template carries: an order button with nothing
\* but its action, a link button written by hand, a button with values
\* that are not accepted, a button of nulls, a button declared above the
\* first row, and an entry that is no dict.
RawButton(label, emoji, style, action, url, row) ==
    [t |-> "dict", label |-> label, emoji |-> emoji, style |-> style,
     action |-> action, url |-> url, row |-> row]

RawButtons ==
    {RawButton(Missing, Missing, Missing, Plain("order"), Missing, Missing),
     RawButton(Plain("site"), String("globe", FALSE, TRUE),
               String("danger", TRUE, FALSE), String("link", TRUE, TRUE),
               String("https://example.org", FALSE, TRUE), Plain("3")),
     RawButton(Number(5), Plain(""), Plain("blue"), Plain("dance"),
               Plain(""), Number(7)),
     RawButton(Null, Null, Null, Null, Null, Null),
     RawButton(Plain("help"), Missing, Plain("primary"), Plain("support"),
               Missing, Number(0 - 1)),
     Plain("button")}

RawButtonLists == UNION {[1..n -> RawButtons] : n \in 0..MaxButtons}

RawBlock(title) ==
    [t |-> "dict", title |-> title, description |-> Missing,
     color_hex |-> Missing, image_url |-> Missing, image_position |-> Missing]

RawBlockLists ==
    {Missing, Null, Array(<<RawBlock(Plain("terms"))>>),
     Array(<<Plain("block"), RawBlock(Missing)>>)}

\* The documents of a posts file: current ones, and legacy ones with the
\* split_* keys.
RawDocuments ==
    {[name |-> Plain("promo"),
      channel_id |-> Number(LobbyChannel),
      title |-> Plain("title"),
      description |-> Plain("description"),
      color_hex |-> color_hex,
      image_url |-> Missing,
      is_ticket_panel |-> Missing,
      gradient_start_hex |-> Missing,
      gradient_end_hex |-> Missing,
      order_style |-> order_style,
      support_style |-> Missing,
      order_emoji |-> Missing,
      support_emoji |-> String("lifebuoy", FALSE, TRUE),
      panel_buttons |-> IF buttons = <<>> THEN Missing ELSE Array(buttons),
      extra_blocks |-> extra_blocks,
      split_enabled |-> split_enabled,
      split_title |-> split_title,
      split_description |-> split_description,
      split_color_hex |-> split_color_hex] :
        color_hex \in {Missing, String("ff0000", TRUE, FALSE)},
        order_style \in {Missing, String("danger", TRUE, TRUE)},
        buttons \in RawButtonLists,
        extra_blocks \in RawBlockLists,
        split_enabled \in {Missing, Flag(TRUE), Flag(FALSE)},
        split_title \in {Missing, Plain("more"), String("", FALSE, TRUE)},
        split_description \in {Missing, Plain("details")},
        split_color_hex \in {Missing, Plain("")}}

\* PostStore.load: the post in memory is the normalized document.
PostStore_load ==
    /\ post' = normalize_saved_post(raw)
    /\ post' # post
    /\ UNCHANGED <<raw, editing, stored_posts, channel_text>>
    /\ UNCHANGED <<registry, ticket_store, discord, panel, tasks, digest_sent>>

\* PostStore.save: the document is asdict of the post in memory.
PostStore_save ==
    /\ post # NoPost
    /\ raw' = AsDict(post)
    /\ raw' # raw
    /\ UNCHANGED <<post, editing, stored_posts, channel_text>>
    /\ UNCHANGED <<registry, ticket_store, discord, panel, tasks, digest_sent>>

\* A posts file found at start, loaded, saved and loaded again.
NormInit ==
    /\ tg_admin_ids = {}
    /\ links = EmptyFn
    /\ roles = EmptyFn
    /\ roles_order = <<>>
    /\ role_chats = EmptyFn
    /\ panel = <<>>
    /\ InitStores
    /\ history = <<>>
    /\ digest = NoDigest
    /\ raw \in RawDocuments
    /\ post = NoPost
    /\ request = NoRequest
    /\ response = NoResponse
    /\ published = NoMessage
    /\ post_store = EmptyFn
    /\ posts_file = EmptyFn

NormNext ==
    \/ PostStore_load
    \/ PostStore_save

NormSpec == NormInit /\ [][NormNext]_vars

(***************************************************************************)
(* parse_button_tags.  A text is a sequence of tokens: pieces of plain     *)
(* text (strings) and places where BUTTON_TAG_RE could match, each with    *)
(* the fields between its "|" as they are written.                         *)
(***************************************************************************)
Tag(parts) == [t |-> "tag", parts |-> parts]
Space == String("", FALSE, TRUE)

\* The characters of the words a POSITION field is written with.
Spell(word) ==
    CASE word = "row1" -> <<"r", "o", "w", "1">>
      [] word = "row9" -> <<"r", "o", "w", "9">>
      [] word = "row12" -> <<"r", "o", "w", "1", "2">>
      [] word = "row-1" -> <<"r", "o", "w", "-", "1">>
      [] word = "row 2" -> <<"r", "o", "w", " ", "2">>
      [] word = "rowx" -> <<"r", "o", "w", "x">>
      [] word = "row" -> <<"r", "o", "w">>
      [] word = "ro" -> <<"r", "o">>
      [] word = "" -> <<>>
      [] OTHER -> <<word>>

DigitValue(c) ==
    CASE c = "0" -> 0 [] c = "1" -> 1 [] c = "2" -> 2 [] c = "3" -> 3
      [] c = "4" -> 4 [] c = "5" -> 5 [] c = "6" -> 6 [] c = "7" -> 7
      [] c = "8" -> 8 [] c = "9" -> 9

Digits == {"0", "1", "2", "3", "4", "5", "6", "7", "8", "9"}

\* n.isdigit()
IsDigit(chars) == chars # <<>> /\ \A i \in 1..Len(chars) : chars[i] \in Digits

\* int(n) of a string of digits
RECURSIVE IntOf(_)
IntOf(chars) ==
    IF chars = <<>> THEN 0
    ELSE 10 * IntOf(SubSeq(chars, 1, Len(chars) - 1)) + DigitValue(chars[Len(chars)])

\* chars.strip(c)
RECURSIVE Trim(_, _)
Trim(chars, c) ==
    IF chars = <<>> THEN chars
    ELSE IF Head(chars) = c THEN Trim(Tail(chars), c)
    ELSE IF chars[Len(chars)] = c THEN Trim(SubSeq(chars, 1, Len(chars) - 1), c)
    ELSE chars

\* .strip() of a string of characters
StripChars(chars) == Trim(chars, " ")

\* max(0, min(4, row))
Clamp(row) == IF row < 0 THEN 0 ELSE IF row > 4 THEN 4 ELSE row

\* An alias table that takes an unknown action for an order.
action_aliases_UnknownIsOrder(action_raw) ==
    CASE action_raw \in {"support", "help", "sapport", "podderzhka"} -> "support"
      [] action_raw \in {"url", "link", "ssylka"} -> "url"
      [] OTHER -> "order"

\* The alias table (the three Russian aliases are written in Latin
\* letters here).
action_aliases(action_raw) ==
    CASE action_raw \in {"order", "ticket", "zakaz"} -> "order"
      [] action_raw \in {"support", "help", "sapport", "podderzhka"} -> "support"
      [] action_raw \in {"url", "link", "ssylka"} -> "url"
      [] OTHER -> action_raw

\* A row that "row<N>" sets without clamping it.
resolve_row_Unclamped(pos, base_row) ==
    LET p == Spell(Lower(Strip(OrElse(pos, Plain("inline")))).word)
    IN IF p = <<"bottom">> THEN 4
       ELSE IF Len(p) >= 3 /\ SubSeq(p, 1, 3) = <<"r", "o", "w">>
                 /\ IsDigit(StripChars(SubSeq(p, 4, Len(p))))
            THEN IntOf(StripChars(SubSeq(p, 4, Len(p))))
            ELSE base_row

\* parse_button_tags._resolve_row
resolve_row(pos, base_row) ==
    LET p == Spell(Lower(Strip(OrElse(pos, Plain("inline")))).word)
    IN IF p = <<"bottom">> THEN 4
       ELSE IF Len(p) >= 3 /\ SubSeq(p, 1, 3) = <<"r", "o", "w">>
            THEN LET n == StripChars(SubSeq(p, 4, Len(p)))
                 IN IF IsDigit(n) THEN Clamp(IntOf(n)) ELSE base_row
            ELSE base_row

\* The fields of a tag: [x.strip() for x in raw.split("|")]
Parts(tag) == [i \in 1..Len(tag.parts) |-> Strip(tag.parts[i])]

\* A replacement that writes the emoji and the space even when there is no
\* emoji.
Shown_EmojiAlways(emoji, label) == <<emoji, Space, label>>

\* f"{(emoji + ' ') if emoji else ''}{label}"
Shown(emoji, label) ==
    IF Truthy(emoji) THEN <<emoji, Space, label>> ELSE <<label>>

\* parse_button_tags._repl for one token: the text that replaces it and the
\* buttons it adds.  BUTTON_TAG_RE needs one character or more between
\* "{{btn:" and "}}".
repl(token, base_row) ==
    LET parts == Parts(token)
        Field(i, default) == IF Len(parts) >= i THEN parts[i] ELSE default
        label == OrElse(parts[1], String("button", TRUE, FALSE))
        action == Plain(action_aliases(Lower(parts[2]).word))
        style == IF Len(parts) > 2 /\ Truthy(parts[3])
                 THEN normalize_style_name(parts[3])
                 ELSE Plain("secondary")
        emoji == Field(5, Plain(""))
        extra == Field(6, Plain(""))
        url == IF action = Plain("url") THEN OrElse(extra, Null) ELSE Null
        untouched == [text |-> <<token>>, buttons |-> <<>>]
    IN IF token.t # "tag" THEN untouched
       ELSE IF token.parts = <<Plain("")>> THEN untouched
       ELSE IF Len(parts) < 2 THEN untouched
       ELSE IF action = Plain("url") /\ ~Truthy(url)
            THEN [text |-> Shown(emoji, label), buttons |-> <<>>]
       ELSE IF action \notin {Plain("order"), Plain("support"), Plain("url")}
            THEN untouched
       ELSE [text |-> Shown(emoji, label),
             buttons |-> <<[label |-> label,
                            emoji |-> emoji,
                            style |-> style,
                            action |-> action,
                            url |-> url,
                            row |-> Number(resolve_row(Field(4, Plain("inline")),
                                                       base_row))]>>]

\* BUTTON_TAG_RE.sub(_repl, text): the tokens from left to right.
RECURSIVE Sub(_, _)
Sub(text, base_row) ==
    IF text = <<>> THEN [text |-> <<>>, buttons |-> <<>>]
    ELSE LET first == repl(Head(text), base_row)
             rest == Sub(Tail(text), base_row)
         IN [text |-> first.text \o rest.text,
             buttons |-> first.buttons \o rest.buttons]

parse_button_tags(text, default_row) ==
    IF text = <<>> THEN [text |-> text, buttons |-> <<>>]
    ELSE Sub(text, Clamp(default_row))

\* The tags of the texts that are compiled.
Tags ==
    {Tag(<<String("buy", TRUE, FALSE), Plain("order"), Plain("success"), Plain("bottom")>>),
     Tag(<<String("help", TRUE, TRUE), String("help", TRUE, FALSE), Space,
           Plain("row9"), Plain("lifebuoy")>>),
     Tag(<<Plain("site"), Plain("link"), Plain(""), Plain("row1"), Plain(""),
           Plain("https://example.org")>>),
     Tag(<<Plain("site"), Plain("url")>>),
     Tag(<<Plain("docs"), Plain("url"), Plain(""), Plain("top"), Plain("clip")>>),
     Tag(<<Plain("buy")>>),
     Tag(<<Plain("buy"), Plain("dance")>>),
     Tag(<<Plain(""), Plain("order"), Plain("blue"), Plain("row-1")>>),
     Tag(<<Plain("go"), Plain("ticket"), String("danger", TRUE, FALSE), Plain("row 2")>>),
     Tag(<<Plain("go"), Plain("support"), Plain("primary"), Plain("rowx")>>),
     Tag(<<Plain("go"), Plain("support"), Plain(""), Plain("row12")>>),
     Tag(<<Plain("go"), Plain("order"), Plain(""), String("bottom", TRUE, TRUE)>>),
     Tag(<<Space>>),
     Tag(<<Plain("")>>)}

Tokens == Tags \cup {Plain("world"), Space}

\* "Hello {{btn:Buy|order|success|bottom}} world"
HelloBuyWorld ==
    <<String("hello", TRUE, FALSE), Space,
      Tag(<<String("buy", TRUE, FALSE), Plain("order"), Plain("success"), Plain("bottom")>>),
      Space, Plain("world")>>

Texts == UNION {[1..n -> Tokens] : n \in 0..MaxTokens} \cup {HelloBuyWorld}

DefaultRows == {0 - 1, 0, 2, 5}

\* Nothing but templates: no registry, no ticket, no message.
NoActivity ==
    /\ tg_admin_ids = {}
    /\ links = EmptyFn
    /\ roles = EmptyFn
    /\ roles_order = <<>>
    /\ role_chats = EmptyFn
    /\ panel = <<>>
    /\ InitStores
    /\ history = <<>>
    /\ digest = NoDigest

\* A call of parse_button_tags(text, default_row=...): the result is what
\* the caller gets back.
Compile ==
    /\ request # NoRequest
    /\ response = NoResponse
    /\ response' = parse_button_tags(request.text, request.default_row)
    /\ UNCHANGED <<posts, stored_posts, request, published, channel_text>>
    /\ UNCHANGED <<registry, ticket_store, discord, panel, tasks, digest_sent>>

TagInit ==
    /\ NoActivity
    /\ raw = NoDocument
    /\ post = NoPost
    /\ request \in {[text |-> text, default_row |-> default_row] :
                        text \in Texts, default_row \in DefaultRows}
    /\ response = NoResponse
    /\ published = NoMessage
    /\ post_store = EmptyFn
    /\ posts_file = EmptyFn

TagNext == Compile

TagSpec == TagInit /\ [][TagNext]_vars

(***************************************************************************)
(* The template store, the editor and publish_post.                        *)
(***************************************************************************)
\* A description with tags in it: a string that is a sequence of tokens.
Prose(tokens) == [t |-> "str", tokens |-> tokens]

\* The tokens of a string.
TokensOf(v) ==
    IF "tokens" \in DOMAIN v THEN v.tokens
    ELSE IF v = Plain("") THEN <<>>
    ELSE <<v>>

HexDigits == Digits \cup {"a", "b", "c", "d", "e", "f"}

\* The characters of the words a colour is written with.
SpellHex(word) ==
    CASE word = "2ecc71" -> <<"2", "e", "c", "c", "7", "1">>
      [] word = "5865f2" -> <<"5", "8", "6", "5", "f", "2">>
      [] word = "ff0000" -> <<"f", "f", "0", "0", "0", "0">>
      [] word = "#2ecc71" -> <<"#", "2", "e", "c", "c", "7", "1">>
      [] word = "fff" -> <<"f", "f", "f">>
      [] word = "2ecc71ff" -> <<"2", "e", "c", "c", "7", "1", "f", "f">>
      [] word = "" -> <<>>
      [] OTHER -> <<word>>

\* The digits int(s.strip("#"), 16) reads (int() takes whitespace around
\* them).
HexChars(v) == Trim(SpellHex(v.word), "#")

\* int(s.strip("#"), 16) does not raise.
HexParses(v) ==
    /\ v.t = "str"
    /\ HexChars(v) # <<>>
    /\ \A i \in 1..Len(HexChars(v)) : HexChars(v)[i] \in HexDigits

\* The PanelButton parse_post_json makes of one raw button: the action is
\* kept as it is written.
EditorButtonOf(b) ==
    [label |-> PyStr(Get(b.label, String("button", TRUE, FALSE))),
     emoji |-> Strip(PyStr(Get(b.emoji, Plain("")))),
     style |-> normalize_style_name(PyStr(Get(b.style, Plain("secondary")))),
     action |-> Lower(Strip(PyStr(Get(b.action, Plain("none"))))),
     url |-> OrElse(Strip(PyStr(Get(b.url, Plain("")))), Null),
     row |-> Number(ButtonRow(b))]

\* parse_post_json: the SavedPost of a request body, or the exception.
parse_post_json(data) ==
    LET buttons == Dicts(OrElse(Get(data.panel_buttons, Array(<<>>)), Array(<<>>)).items)
        blocks == Dicts(Get(data.extra_blocks, Array(<<>>)).items)
        made ==
          [name |-> Lower(Strip(PyStr(data.name))),
           channel_id |-> Number(PyInt(data.channel_id).i),
           title |-> PyStr(Get(data.title, Plain(""))),
           description |-> PyStr(Get(data.description, Plain(""))),
           color_hex |-> PyStr(Get(data.color_hex, String("2ecc71", TRUE, FALSE))),
           image_url |-> OrElse(Strip(PyStr(Get(data.image_url, Plain("")))), Null),
           is_ticket_panel |-> Flag(Truthy(Get(data.is_ticket_panel, Flag(FALSE)))),
           gradient_start_hex |->
               PyStr(Get(data.gradient_start_hex, String("2ecc71", TRUE, FALSE))),
           gradient_end_hex |->
               PyStr(Get(data.gradient_end_hex, String("5865f2", TRUE, FALSE))),
           order_style |->
               normalize_style_name(PyStr(Get(data.order_style, Plain("success")))),
           support_style |->
               normalize_style_name(PyStr(Get(data.support_style, Plain("primary")))),
           order_emoji |-> Strip(PyStr(Get(data.order_emoji, Plain("receipt")))),
           support_emoji |-> Strip(PyStr(Get(data.support_emoji, Plain("lifebuoy")))),
           panel_buttons |-> [i \in 1..Len(buttons) |-> EditorButtonOf(buttons[i])],
           extra_blocks |-> [i \in 1..Len(blocks) |-> BlockOf(blocks[i])]]
    IN IF \/ Get(data.extra_blocks, Array(<<>>)).t # "list"
          \/ data.name = Missing
          \/ data.channel_id = Missing
          \/ PyInt(data.channel_id).raised
       THEN [raised |-> TRUE, post |-> NoPost]
       ELSE IF HexParses(made.color_hex) /\ HexParses(made.gradient_start_hex)
                 /\ HexParses(made.gradient_end_hex)
            THEN [raised |-> FALSE, post |-> made]
            ELSE [raised |-> TRUE, post |-> NoPost]

\* PostStore.save: the payload written to posts.json.
Payload(store) == [name \in DOMAIN store |-> AsDict(store[name])]

\* PostStore.load: every entry normalized, under the name it carries.
Loaded(file) ==
    LET Merged(key) == IF file[key].name = Missing
                       THEN [file[key] EXCEPT !.name = key]
                       ELSE file[key]
        names == {normalize_saved_post(Merged(key)).name : key \in DOMAIN file}
    IN [name \in names |->
          normalize_saved_post(
              Merged(CHOOSE key \in DOMAIN file :
                        normalize_saved_post(Merged(key)).name = name))]

\* PostStore.set
PostStoreSet(store, p) ==
    [name \in DOMAIN store \cup {p.name} |-> IF name = p.name THEN p ELSE store[name]]

\* materialize_post_for_send
materialize_post_for_send(p) ==
    LET compiled == parse_button_tags(TokensOf(p.description), 0)
    IN [p EXCEPT !.description = Prose(compiled.text),
                 !.panel_buttons = p.panel_buttons \o compiled.buttons]

\* A post that gets a view only when it is flagged as a ticket panel.
HasView_PanelsOnly(runtime_post) == Truthy(runtime_post.is_ticket_panel)

\* publish_post: runtime_post.is_ticket_panel or has_runtime_buttons
HasView(runtime_post) ==
    Truthy(runtime_post.is_ticket_panel) \/ runtime_post.panel_buttons # <<>>

\* The buttons TicketOpenView.__init__ iterates over, each with the key
\* list.sort uses and its place in the list before the sort.
ViewConfigs(runtime_post) ==
    LET defaults ==
          <<[label |-> String("order", TRUE, FALSE), emoji |-> runtime_post.order_emoji,
             style |-> runtime_post.order_style, action |-> Plain("order"),
             url |-> Null, row |-> Number(0)],
            [label |-> String("support", TRUE, FALSE), emoji |-> runtime_post.support_emoji,
             style |-> runtime_post.support_style, action |-> Plain("support"),
             url |-> Null, row |-> Number(0)]>>
        buttons == IF runtime_post.panel_buttons = <<>> THEN defaults
                   ELSE runtime_post.panel_buttons
    IN SortByRow([i \in 1..Len(buttons) |->
                    [cfg |-> buttons[i],
                     row |-> IF buttons[i].row.t = "int" THEN buttons[i].row.i ELSE 0,
                     place |-> i]])

\* The items TicketOpenView.__init__ adds, in the order it adds them: a
\* link for a url button with a url, a button with a callback for an order
\* or support button, nothing for the others.
ViewItems(runtime_post) ==
    LET configs == ViewConfigs(runtime_post)
        Action(k) == Lower(Strip(PyStr(OrElse(configs[k].cfg.action, Plain("none")))))
        Added(k) == \/ Action(k) = Plain("url") /\ Truthy(configs[k].cfg.url)
                    \/ Action(k) \in {Plain("order"), Plain("support")}
        Item(k) ==
          IF Action(k) = Plain("url") /\ Truthy(configs[k].cfg.url)
          THEN [kind |-> "link", label |-> configs[k].cfg.label,
                url |-> configs[k].cfg.url, ticket_type |-> Plain(""),
                row |-> Clamp(configs[k].row), place |-> configs[k].place]
          ELSE [kind |-> "button", label |-> configs[k].cfg.label,
                url |-> Null, ticket_type |-> Action(k),
                row |-> Clamp(configs[k].row), place |-> configs[k].place]
        kept == SelectSeq([k \in 1..Len(configs) |-> k], Added)
    IN [n \in 1..Len(kept) |-> Item(kept[n])]

\* embeds_from_post raises on a colour int(..., 16) does not take.
EmbedsRaise(p) ==
    \/ ~HexParses(p.color_hex)
    \/ \E i \in 1..Len(p.extra_blocks) : ~HexParses(p.extra_blocks[i].color_hex)

\* What publish_post hands to channel.send for a post: the embeds of the
\* runtime post and, when it has one, the view.
Rendering(p) ==
    LET runtime_post == materialize_post_for_send(p)
    IN [post |-> p,
        description |-> runtime_post.description,
        buttons |-> runtime_post.panel_buttons,
        view |-> HasView(runtime_post),
        items |-> IF HasView(runtime_post) THEN ViewItems(runtime_post) ELSE <<>>]

PublishRaises(p) == p.channel_id.i \notin channels \/ EmbedsRaise(p)

OK == [status |-> 200]
BadRequest == [status |-> 400]
NotFound == [status |-> 404]

\* POST /api/posts/save
web_save_post(body) ==
    /\ request' = body
    /\ LET parsed == parse_post_json(body)
       IN IF parsed.raised
          THEN /\ response' = BadRequest
               /\ UNCHANGED <<post_store, posts_file>>
          ELSE /\ post_store' = PostStoreSet(post_store, parsed.post)
               /\ posts_file' = Payload(post_store')
               /\ response' = OK
    /\ UNCHANGED <<posts, published, channel_text>>
    /\ UNCHANGED <<registry, ticket_store, discord, panel, tasks, digest_sent>>

\* POST /api/posts/{name}/publish and /post_send <name>: publish, then
\* store the message id.
web_publish_post(name) ==
    /\ request' = [name |-> name]
    /\ IF name \notin DOMAIN post_store
       THEN /\ response' = NotFound
            /\ UNCHANGED <<post_store, posts_file, published>>
       ELSE IF PublishRaises(post_store[name])
       THEN /\ response' = BadRequest
            /\ UNCHANGED <<post_store, posts_file, published>>
       ELSE /\ published' = Rendering(post_store[name])
            /\ posts_file' = Payload(post_store)
            /\ response' = OK
            /\ UNCHANGED post_store
    /\ UNCHANGED <<posts, channel_text>>
    /\ UNCHANGED <<registry, ticket_store, discord, panel, tasks, digest_sent>>

\* SavedPost(name=..., channel_id=..., title=..., description=...,
\* color_hex=..., image_url=...) with the defaults of the dataclass.
NewPost(name, channel_id, title, description, color_hex) ==
    [name |-> name,
     channel_id |-> Number(channel_id),
     title |-> title,
     description |-> description,
     color_hex |-> color_hex,
     image_url |-> Null,
     is_ticket_panel |-> Flag(FALSE),
     gradient_start_hex |-> String("2ecc71", TRUE, FALSE),
     gradient_end_hex |-> String("5865f2", TRUE, FALSE),
     order_style |-> Plain("success"),
     support_style |-> Plain("primary"),
     order_emoji |-> Plain("receipt"),
     support_emoji |-> Plain("lifebuoy"),
     panel_buttons |-> <<>>,
     extra_blocks |-> <<>>]

\* /post_save <name> <channel_id> title|description|color_hex: the post is
\* published first and stored when that did not raise.
tg_post_save(name, channel_id, description, color_hex) ==
    /\ request' = [name |-> name, channel_id |-> channel_id,
                   description |-> description, color_hex |-> color_hex]
    /\ LET made == NewPost(Lower(Strip(name)), channel_id, Plain("title"),
                           description, color_hex)
       IN IF PublishRaises(made)
          THEN /\ response' = BadRequest
               /\ UNCHANGED <<post_store, posts_file, published>>
          ELSE /\ published' = Rendering(made)
               /\ post_store' = PostStoreSet(post_store, made)
               /\ posts_file' = Payload(post_store')
               /\ response' = OK
    /\ UNCHANGED <<posts, channel_text>>
    /\ UNCHANGED <<registry, ticket_store, discord, panel, tasks, digest_sent>>

\* The process is started again: PostStore.__init__ loads posts.json.
Restart ==
    /\ post_store' = Loaded(posts_file)
    /\ request' = NoRequest
    /\ response' = NoResponse
    /\ UNCHANGED <<posts_file, posts, published, channel_text>>
    /\ UNCHANGED <<registry, ticket_store, discord, panel, tasks, digest_sent>>

\* The raw buttons of the request bodies.
OrderButton(row) ==
    RawButton(Plain("buy"), Missing, Plain("success"), Plain("order"), Missing, row)
SupportButton(row) ==
    RawButton(Plain("help"), Missing, Missing, Plain("support"), Missing, row)
LinkButton(url, row) ==
    RawButton(Plain("site"), Missing, Missing, Plain("url"), url, row)

BodyButtons ==
    {Missing,
     Array(<<OrderButton(Number(7)), SupportButton(Number(0 - 1))>>),
     Array(<<LinkButton(Missing, Number(2)),
             LinkButton(Plain("https://example.org"), Plain("1")),
             RawButton(Plain("note"), Missing, Missing, Plain("none"), Missing, Missing)>>)}

BodyDescriptions ==
    {Missing,
     Prose(<<Tag(<<Plain("go"), Plain("support"), Plain(""), Plain("row1")>>),
             Tag(<<String("help", TRUE, TRUE), String("help", TRUE, FALSE), Space,
                   Plain("row9"), Plain("lifebuoy")>>),
             Tag(<<Plain("site"), Plain("url")>>),
             Tag(<<Plain("go"), Plain("ticket")>>),
             Tag(<<Plain("buy"), Plain("dance")>>)>>)}

Body(name, color_hex, gradient_start_hex, gradient_end_hex, is_ticket_panel, description, panel_buttons) ==
    [name |-> name,
     channel_id |-> Number(LobbyChannel),
     title |-> Plain("title"),
     description |-> description,
     color_hex |-> color_hex,
     image_url |-> Missing,
     is_ticket_panel |-> is_ticket_panel,
     gradient_start_hex |-> gradient_start_hex,
     gradient_end_hex |-> gradient_end_hex,
     order_style |-> Missing,
     support_style |-> Missing,
     order_emoji |-> Missing,
     support_emoji |-> Missing,
     panel_buttons |-> panel_buttons,
     extra_blocks |-> Missing]

\* The bodies the editor sends for panels: buttons, tags, the flag.
PanelBodies ==
    {Body(Plain("promo"), Missing, Missing, Missing, is_ticket_panel,
          description, panel_buttons) :
        is_ticket_panel \in {Missing, Flag(TRUE)},
        description \in BodyDescriptions,
        panel_buttons \in BodyButtons}

\* The bodies the editor sends with names and colours as they are typed.
FormBodies ==
    {Body(name, Missing, Missing, Missing, Missing, Missing, Missing) :
        name \in {Plain("promo"), String("promo", TRUE, TRUE), Space, Plain(""), Missing}}
    \cup {Body(Plain("promo"), color_hex, Missing, Missing, Missing, Missing, Missing) :
            color_hex \in {Plain("fff"), Plain("red"), Plain("#2ecc71"),
                           Plain("2ecc71ff"), Plain(""),
                           String("ff0000", TRUE, FALSE)}}
    \cup {Body(Plain("promo"), Missing, gradient_start_hex, Missing, Missing,
               Missing, Missing) :
            gradient_start_hex \in {Plain("fff"), Plain("red")}}
    \cup {Body(Plain("promo"), Missing, Missing, gradient_end_hex, Missing,
               Missing, Missing) :
            gradient_end_hex \in {Plain("fff"), Plain("red")}}

\* A posts file of an older version: one entry, named by its key, with the
\* split_* keys and a button without url.
LegacyFile ==
    LET key == Plain("legacy")
    IN [name \in {key} |->
          [name |-> Missing,
           channel_id |-> Number(LobbyChannel),
           title |-> Plain("title"),
           description |-> Plain("description"),
           color_hex |-> Missing,
           image_url |-> Missing,
           is_ticket_panel |-> Flag(TRUE),
           gradient_start_hex |-> Missing,
           gradient_end_hex |-> Missing,
           order_style |-> Missing,
           support_style |-> Missing,
           order_emoji |-> Missing,
           support_emoji |-> Missing,
           panel_buttons |-> Array(<<OrderButton(Plain("9"))>>),
           extra_blocks |-> Missing,
           split_enabled |-> Flag(TRUE),
           split_title |-> Plain("more"),
           split_description |-> Plain("details"),
           split_color_hex |-> Missing]]

PostNames == {Plain("promo"), Plain("legacy"), Plain("news")}

TemplateInit ==
    /\ NoActivity
    /\ raw = NoDocument
    /\ post = NoPost
    /\ posts_file \in {EmptyFn, LegacyFile}
    /\ post_store = Loaded(posts_file)
    /\ request = NoRequest
    /\ response = NoResponse
    /\ published = NoMessage

\* Panels: saved by the editor, published, loaded again at a restart.
PublishNext ==
    \/ \E body \in PanelBodies : web_save_post(body)
    \/ \E name \in PostNames : web_publish_post(name)
    \/ Restart

PublishSpec == TemplateInit /\ [][PublishNext]_vars

\* Names and colours: saved by the editor and by /post_save, loaded again
\* at a restart.
EditorNext ==
    \/ \E body \in FormBodies : web_save_post(body)
    \/ \E name \in {String("news", TRUE, FALSE)},
          description \in {Prose(HelloBuyWorld)},
          color_hex \in {String("2ecc71", TRUE, FALSE), Plain("red")} :
          tg_post_save(name, LobbyChannel, description, color_hex)
    \/ Restart

EditorSpec == TemplateInit /\ [][EditorNext]_vars

(***************************************************************************)
(* Properties.                                                             *)
(***************************************************************************)
\* The digest messages Telegram accepted as new for one (ticket, chat).
SentFor(ch, chat) == {s \in digest_sent : s[1] = ch /\ s[2] = chat}

AllChats == Chats \cup TgUsers

\* The frames a step adds to the tasks in flight, and those it takes away.
Entered == {t \in BagToSet(tasks') : CopiesIn(t, tasks') > CopiesIn(t, tasks)}
Left == {t \in BagToSet(tasks) : CopiesIn(t, tasks') < CopiesIn(t, tasks)}

\* C1: when the refreshes of a ticket do not overlap, every (ticket, chat)
\* pair has at most one digest message sent as new; its id is recorded in
\* digest_message_ids exactly when it was sent and is the recorded id ever
\* after; a refresh awaits send_message only for a pair with no message yet,
\* and otherwise awaits the edit of exactly the recorded message.
C1_DigestSentOnceThenEdited ==
    /\ \A ch \in DOMAIN heap : \A chat \in AllChats :
          /\ Cardinality(SentFor(ch, chat)) <= 1
          /\ chat \in DOMAIN heap[ch].digest_message_ids <=> SentFor(ch, chat) # {}
          /\ \A s \in SentFor(ch, chat) : heap[ch].digest_message_ids[chat] = s[3]
    /\ \A t \in Running : t.kind = "refresh" =>
          /\ t.pc = "send" => SentFor(t.ch, t.cur) = {}
          /\ t.pc = "edit" => SentFor(t.ch, t.cur) = {<<t.ch, t.cur, t.msg_id>>}

\* C1 witness: a later refresh edits the message an earlier refresh sent,
\* for a ticket with two recipients.
C1_Witness ==
    \E t \in Running :
        /\ t.kind = "refresh" /\ t.pc = "edit"
        /\ Cardinality(t.targets) = 2
        /\ \A chat \in t.targets : Cardinality(SentFor(t.ch, chat)) = 1

\* C2: also when refreshes of one ticket overlap, at most one digest
\* message is sent as new per (ticket, chat) pair, and every message sent is
\* the one recorded for the pair.
C2_OverlapSendsOnce ==
    \A ch \in DOMAIN heap : \A chat \in AllChats :
        /\ Cardinality(SentFor(ch, chat)) <= 1
        /\ \A s \in SentFor(ch, chat) : DigestGet(heap, ch, chat) = s[3]

\* C3: a channel whose binding was removed from the ticket store (its
\* binding object exists, its key does not) never gets a binding again.
C3_RemovedStaysRemoved ==
    [][\A ch \in DOMAIN heap :
          ch \notin DOMAIN bindings => ch \notin DOMAIN bindings']_vars

\* What close_ticket sends to every recipient.
CloseItems == {"notice", "rating"} \cup {ArchiveFiles[i] : i \in 1..Len(ArchiveFiles)}

\* The recipients resolved for the binding a frame holds.
BindingTargets(t) ==
    Targets(heap[t.binding].ticket_type, heap[t.binding].opener_discord_id)

\* C4: the step in which a close whose deliveries all succeeded removes the
\* binding ends with every resolved recipient having got the closure notice
\* and every archive file, and with no binding for the channel in the store
\* nor in the persisted document.
C4_CloseDeliversAndRemoves ==
    [][\A u \in Entered :
          (u.kind = "close" /\ u.pc = "delete" /\ ~u.any_failed) =>
              /\ \A chat \in BindingTargets(u) :
                    \A item \in CloseItems \ {"rating"} : <<chat, item>> \in u.attempted
              /\ u.ch \notin DOMAIN bindings'
              /\ u.ch \notin DOMAIN ticket_file']_vars

\* C4 witness: scenario B, the opener's chat 555 and the admin chat 777 got
\* everything and the binding is gone.
C4_Witness ==
    \E t \in Running :
        /\ t.kind = "close" /\ t.pc = "delete" /\ ~t.any_failed
        /\ BindingTargets(t) = {555, 777}
        /\ {<<555, "notice">>, <<777, "notice">>,
            <<555, "ticket_archive.zip">>, <<777, "ticket_archive.zip">>} \subseteq t.attempted
        /\ t.ch \notin DOMAIN bindings

\* The item a close frame is awaiting the delivery of.
AwaitedItem(t) ==
    IF t.pc = "notify" THEN "notice"
    ELSE IF t.pc = "file" THEN ArchiveFiles[t.file]
    ELSE "rating"

\* C5: the outcome of one delivery of a close (notice, archive file or
\* rating prompt) never ends the close: the frame goes on with that delivery
\* counted as attempted; and when the close reaches the removal, every item
\* has been attempted for every resolved recipient, whatever failed, and the
\* binding is removed by that step.
C5_DeliveryFailuresIndependent ==
    /\ [][\A t \in Left :
            (t.kind = "close" /\ t.pc \in {"notify", "file", "rating"}) =>
                \E u \in Entered :
                    /\ u.kind = "close" /\ u.ch = t.ch
                    /\ u.attempted = t.attempted \cup {<<t.cur, AwaitedItem(t)>>}]_vars
    /\ [][\A u \in Entered :
            (u.kind = "close" /\ u.pc = "delete") =>
                /\ BindingTargets(u) \X CloseItems \subseteq u.attempted
                /\ u.ch \notin DOMAIN bindings']_vars

\* C5 witness: a close over two recipients in which a delivery failed has
\* removed the binding.
C5_Witness ==
    \E t \in Running :
        /\ t.kind = "close" /\ t.pc = "delete" /\ t.any_failed
        /\ Cardinality(BindingTargets(t)) = 2
        /\ t.ch \notin DOMAIN bindings

\* The number of close frames of a channel that satisfy P.
CloseFrames(ch, P(_)) ==
    LET S == {t \in Running : t.kind = "close" /\ t.ch = ch /\ P(t)}
    IN IF S = {} THEN 0
       ELSE IF Cardinality(S) > 1 THEN 2
       ELSE CopiesIn(CHOOSE t \in S : TRUE, tasks)

\* C6: of the closes of one channel, at most one has delivered the closure
\* notice to a given recipient, at most one has delivered a given archive
\* file to it, and at most one has requested the deletion of the channel.
C6_CloseAtMostOnce ==
    \A ch \in TicketChannels :
        /\ \A chat \in AllChats : \A item \in CloseItems :
              LET Has(t) == <<chat, item>> \in t.attempted
              IN CloseFrames(ch, Has) <= 1
        /\ LET Deleting(t) == t.pc = "delete"
           IN CloseFrames(ch, Deleting) <= 1

\* C7: a press of the close button in a channel without a binding only
\* awaits the "not a ticket channel" acknowledgement, with nothing notified
\* or archived; neither that press nor the end of its handler changes a
\* store, a channel or a message.
C7_CloseWithoutBinding ==
    /\ [][\A u \in Entered :
            (u.kind = "close" /\ StoreGet(u.ch) = 0 /\ u.pc \notin {"delete"}
                /\ \A t \in Left : t.kind # "close") =>
                /\ u.pc = "not_ticket" /\ u.attempted = {}
                /\ UNCHANGED <<registry, ticket_store, discord, digest_sent>>]_vars
    /\ [][\A t \in Left :
            t.pc = "not_ticket" =>
                /\ Entered = {}
                /\ UNCHANGED <<registry, ticket_store, discord, digest_sent>>]_vars

\* C7 witness: the acknowledgement is awaited in a live channel that has a
\* close button and no binding.
C7_Witness ==
    \E t \in Running :
        /\ t.kind = "close" /\ t.pc = "not_ticket"
        /\ t.ch \in channels /\ t.ch \notin DOMAIN bindings

\* C8: every key of the ticket store is the ticket_channel_id of its
\* binding; the step in which Discord allocates a channel stores exactly one
\* binding, under the new channel id, with the opener and the ticket type of
\* the create that awaited the channel and an empty digest map; and a create
\* that ends, or goes on, without a channel allocated in that step leaves
\* the store as it is.
C8_OneBindingPerCreatedChannel ==
    /\ [](\A k \in DOMAIN bindings : heap[bindings[k]].ticket_channel_id = k)
    /\ [][next_channel' # next_channel =>
            /\ DOMAIN bindings' = DOMAIN bindings \cup {next_channel'}
            /\ next_channel' \notin DOMAIN bindings
            /\ \E t \in Left :
                  /\ t.kind = "create" /\ t.pc = "create_channel"
                  /\ heap'[bindings'[next_channel']] =
                        [ticket_channel_id |-> next_channel',
                         opener_discord_id |-> t.opener,
                         ticket_type |-> t.ticket_type,
                         digest_message_ids |-> EmptyFn]
            /\ ticket_file' = StoreDocument(bindings', heap')]_vars
    /\ [][(next_channel' = next_channel
             /\ \E t \in Left \cup Entered : t.kind = "create") =>
            UNCHANGED <<heap, bindings, ticket_file>>]_vars

\* C8 witness: a create holds the binding it stored for the channel Discord
\* allocated, for the second member and a support ticket.
C8_Witness ==
    \E t \in Running :
        /\ t.kind = "create" /\ t.pc = "greet"
        /\ t.opener = 2 /\ t.ticket_type = "support"
        /\ t.ch \in DOMAIN bindings
        /\ heap[bindings[t.ch]].opener_discord_id = 2

\* C9: a create started by a press of a panel button carries, and stores in
\* the binding it creates, the ticket type that is the declared action of
\* the pressed button, which is order or support.
C9_PressCreatesOwnKind ==
    \A t \in Running :
        t.kind = "create" =>
            /\ t.declared \in {"order", "support"}
            /\ t.ticket_type = t.declared
            /\ t.binding # 0 => heap[t.binding].ticket_type = t.declared

\* C9 witness: a support ticket was created from a panel whose last button
\* is an order button.
C9_Witness ==
    \E t \in Running :
        /\ t.kind = "create" /\ t.binding # 0
        /\ heap[t.binding].ticket_type = "support"
        /\ Len(panel) >= 2
        /\ ViewButtons(panel)[Len(panel)].action = "order"

\* The users of the registry who hold one of the roles and registered a chat.
RegisteredHolders(allowed) ==
    {u \in DOMAIN roles \cap DOMAIN role_chats : roles[u] \in allowed}

\* C10: for every ticket type and opener the resolved targets are exactly
\* the opener's linked chat (if linked), the static administrator ids, the
\* chats registered by admins and managers and, for an order only, the chats
\* registered by builders.
C10_ResolveIsTheUnion ==
    \A ticket_type \in TicketTypes, opener \in Members :
        Targets(ticket_type, opener) =
            (IF opener \in DOMAIN links THEN {links[opener]} ELSE {})
                \cup tg_admin_ids
                \cup {role_chats[u] : u \in RegisteredHolders({"admin", "manager"})}
                \cup (IF ticket_type = "order"
                      THEN {role_chats[u] : u \in RegisteredHolders({"builder"})}
                      ELSE {})

\* C10 witness: a builder registered in one chat and a viewer registered in
\* another, a manager without a chat... the targets of an order and of a
\* support ticket of an unlinked opener differ by the builder's chat.
C10_Witness ==
    /\ 11 \in DOMAIN roles /\ roles[11] = "builder" /\ 11 \in DOMAIN role_chats
    /\ 12 \in DOMAIN roles /\ roles[12] = "viewer" /\ 12 \in DOMAIN role_chats
    /\ role_chats[11] # role_chats[12]
    /\ 2 \notin DOMAIN links
    /\ Targets("order", 2) = tg_admin_ids \cup {role_chats[11]}
    /\ Targets("support", 2) = tg_admin_ids
    /\ role_chats[12] \notin Targets("order", 2)

\* The recipients the contents of the registry define, whatever the order
\* its entries were inserted in.
RegistryUnion(ticket_type, opener) ==
    (IF opener \in DOMAIN links /\ links[opener] # 0 THEN {links[opener]} ELSE {})
        \cup tg_admin_ids
        \cup {role_chats[u] : u \in RegisteredHolders(
                  IF ticket_type = "order" THEN {"admin", "manager", "builder"}
                  ELSE {"admin", "manager"})}

\* The orders in which the keys of a dict can have been inserted.
Orders(keys) ==
    {ord \in [1..Cardinality(keys) -> keys] : \A k \in keys : \E i \in DOMAIN ord : ord[i] = k}

\* C11: whatever order the role assignments were inserted in, the resolver
\* returns the same set for every ticket type and opener: the set the
\* contents of the registry define; and a call of the resolver changes no
\* store and returns that set whatever was resolved before it.
C11_ResolveIgnoresInsertionOrder ==
    /\ [](\A ticket_type \in TicketTypes, opener \in Members :
            \A ord \in Orders(DOMAIN roles) :
                NotificationTargets(tg_admin_ids, links, roles, ord, role_chats,
                                    ticket_type, opener)
                    = RegistryUnion(ticket_type, opener))
    /\ [][\A u \in Entered :
            u.kind = "resolve" =>
                /\ UNCHANGED <<registry, ticket_store>>
                /\ u.targets = RegistryUnion(u.ticket_type, u.opener)]_vars

\* C11 witness: two role holders with different chats, inserted in the order
\* 12, 11, and a call that returned both chats after an earlier call for the
\* other ticket type would have returned one.
C11_Witness ==
    /\ roles_order = <<12, 11>>
    /\ roles[12] = "admin" /\ roles[11] = "builder"
    /\ 11 \in DOMAIN role_chats /\ 12 \in DOMAIN role_chats
    /\ role_chats[11] # role_chats[12]
    /\ \E t \in Running :
          /\ t.kind = "resolve" /\ t.ticket_type = "order"
          /\ t.targets = tg_admin_ids \cup {role_chats[11], role_chats[12]}
          /\ Cardinality(t.targets) >= 2

\* No link of the opener, no static administrator, no admin, manager or
\* builder with a registered chat.
NothingRegistered(opener) ==
    /\ opener \notin DOMAIN links
    /\ tg_admin_ids = {}
    /\ RegisteredHolders({"admin", "manager", "builder"}) = {}

\* C12: an opener without a link, an empty static administrator set and no
\* admin, manager or builder with a registered chat: the resolver returns
\* the empty set for an order and for a support ticket.
C12_NothingRegisteredNothingResolved ==
    /\ [](\A opener \in Members :
            NothingRegistered(opener) =>
                \A ticket_type \in TicketTypes : Targets(ticket_type, opener) = {})
    /\ [][\A u \in Entered :
            (u.kind = "resolve" /\ NothingRegistered(u.opener)) => u.targets = {}]_vars

\* C12 witness: the resolver returned the empty set for member 2 while
\* member 1 is linked and a viewer has a registered chat.
C12_Witness ==
    /\ tg_admin_ids = {}
    /\ 2 \notin DOMAIN links /\ 1 \in DOMAIN links
    /\ RegisteredHolders({"viewer"}) # {}
    /\ RegisteredHolders({"admin", "manager", "builder"}) = {}
    /\ \E t \in Running :
          t.kind = "resolve" /\ t.opener = 2 /\ t.ticket_type = "order" /\ t.targets = {}

\* C13: channel activity starts a refresh only for a channel that has a
\* binding, and starting it changes no store and sends nothing; and a step
\* of a refresh never adds or removes a binding of the store, and never
\* changes the channel id, the opener or the ticket type of a binding.
C13_RefreshKeepsBindings ==
    /\ [][\A u \in Entered :
            (u.kind = "refresh" /\ u.pc = "history") =>
                /\ StoreGet(u.ch) # 0 /\ u.binding = StoreGet(u.ch)
                /\ UNCHANGED <<ticket_store, digest_sent>>]_vars
    /\ [][(\E t \in Left : t.kind = "refresh") =>
            /\ DOMAIN bindings' = DOMAIN bindings
            /\ DOMAIN heap' = DOMAIN heap
            /\ \A ch \in DOMAIN heap :
                  /\ heap'[ch].ticket_channel_id = heap[ch].ticket_channel_id
                  /\ heap'[ch].opener_discord_id = heap[ch].opener_discord_id
                  /\ heap'[ch].ticket_type = heap[ch].ticket_type]_vars

\* A refresh frame that awaits send_message or edit_message_text.
AwaitsTelegram(t) == t.kind = "refresh" /\ t.pc \in {"send", "edit"}

\* C14: whatever the outcome of a send or an edit of a refresh, the refresh
\* goes on to one of the recipients that are left, until none is; a step
\* that records no new message leaves every recorded digest id as it is; a
\* send that returned has its id recorded; and the step that ends a refresh
\* in which a send succeeded writes the binding, with every recorded id,
\* to the persisted document.
C14_RefreshFailuresIndependent ==
    /\ [][\A t \in Left :
            (AwaitsTelegram(t) /\ t.todo # {}) =>
                \E u \in Entered :
                    /\ AwaitsTelegram(u) /\ u.ch = t.ch
                    /\ u.cur \in t.todo /\ u.todo = t.todo \ {u.cur}]_vars
    /\ [][digest_sent' = digest_sent => heap' = heap \/ DOMAIN heap' # DOMAIN heap]_vars
    /\ [][\A s \in digest_sent' \ digest_sent :
            s[2] \in DOMAIN heap'[s[1]].digest_message_ids
                /\ heap'[s[1]].digest_message_ids[s[2]] = s[3]]_vars
    /\ [][\A t \in Left :
            (AwaitsTelegram(t) /\ t.todo = {}
                /\ (t.changed \/ digest_sent' # digest_sent)) =>
                /\ t.ch \in DOMAIN ticket_file'
                /\ ticket_file'[t.ch] = heap'[t.binding]]_vars

\* C14 witness: a refresh over two recipients has ended, one send failed and
\* the id of the other is in the persisted document.
C14_Witness ==
    /\ tasks = EmptyBag
    /\ \E ch \in DOMAIN ticket_file :
          /\ Cardinality(Targets(ticket_file[ch].ticket_type,
                                  ticket_file[ch].opener_discord_id)) = 2
          /\ Cardinality(DOMAIN ticket_file[ch].digest_message_ids) = 1
          /\ ticket_file[ch] = heap[ch]

\* The positions of the messages of members, oldest first.
HumanPositions(hist) ==
    SelectSeq([i \in 1..Len(hist) |-> i], LAMBDA i : ~hist[i].bot)

\* The positions of the messages a digest lists, in the order of its lines.
Listed(text) ==
    LET ls == SelectSeq(text, LAMBDA seg : seg.kind = "line")
    IN [k \in 1..Len(ls) |-> ls[k].msg]

\* The digest was built from the messages the channel has now.
DigestIsFresh == digest.text # <<>> /\ digest.seen = Len(history)

\* C15: the digest built from a channel with n messages of members lists the
\* min(5, n) most recent of them, oldest first, whatever bot messages lie
\* between them, and has the placeholder line exactly when n = 0.
C15_DigestListsLastFive ==
    DigestIsFresh =>
        LET hp == HumanPositions(history)
            n == Len(hp)
            m == IF n < 5 THEN n ELSE 5
        IN /\ Listed(digest.text) = SubSeq(hp, n - m + 1, n)
           /\ (n = 0) <=> (\E k \in DOMAIN digest.text : digest.text[k].kind = "placeholder")

\* The k-th character of a text: the part it belongs to and its place in it.
RECURSIVE CharAt(_, _)
CharAt(text, k) ==
    IF k <= Head(text).len
    THEN [kind |-> Head(text).kind, msg |-> Head(text).msg, at |-> k]
    ELSE CharAt(Tail(text), k - Head(text).len)

\* The places where a segment of a text ends, and the places after them.
Boundaries(text) ==
    LET ends == {TextLen(SubSeq(text, 1, j)) : j \in 1..Len(text)}
    IN ends \cup {e + 1 : e \in ends} \cup {1}

\* C16: the digest text handed to Telegram is never longer than 3800
\* characters and the 4 characters of the marker, which is less than the
\* 4096 characters Telegram takes; a digest of at most 3800 characters is
\* handed over as built, and a longer one as its first 3800 characters
\* followed by the marker.
C16_DigestFitsTheLimit ==
    DigestIsFresh =>
        LET full == Join(DigestLines(heap[bindings[next_channel]].ticket_type, history))
            sent == digest.text
        IN /\ TextLen(sent) <= 3800 + 4
           /\ TextLen(sent) < 4096
           /\ IF TextLen(full) <= 3800
              THEN sent = full
              ELSE /\ TextLen(sent) = 3800 + 4
                   /\ \A k \in (Boundaries(full) \cup Boundaries(sent) \cup {3800})
                                 \cap (1..3800) :
                         CharAt(sent, k) = CharAt(full, k)
                   /\ \A k \in 1..4 :
                         CharAt(sent, 3800 + k) = [kind |-> "marker", msg |-> 0, at |-> k]

\* C16 witness: a digest of exactly 3800 characters was handed over as built
\* and the message after it made the digest longer, so it was cut.
C16_Witness ==
    /\ DigestIsFresh
    /\ Len(history) >= 3
    /\ TextLen(BuildDigest(heap[bindings[next_channel]].ticket_type,
                            SubSeq(history, 1, Len(history) - 1))) = 3800
    /\ TextLen(digest.text) = 3800 + 4
    /\ digest.text[Len(digest.text)].kind = "marker"

\* C17: whenever every handler is suspended or idle, which every state of
\* the model is, the persisted document of a store equals its in-memory map;
\* for the ticket store: tickets.json holds exactly the stored bindings,
\* each with its digest_message_ids.
C17_PersistedEqualsMemory ==
    ticket_file = StoreDocument(bindings, heap)

\* Where a create or a close is after a collaborator call outside the
\* per-recipient loops has returned.
AfterCall(pc) ==
    IF pc = "create_channel" THEN {"greet"}
    ELSE IF pc = "greet" THEN {"notify", "followup"}
    ELSE IF pc = "archive" THEN {"file", "delete"}
    ELSE {}

\* C18: when the channel creation or the greeting of a create, or the
\* archive collection or the channel deletion of a close raises, the
\* handler goes on to send a failure acknowledgement to the user who
\* started it.
C18_FailureIsAcknowledged ==
    [][\A t \in Left :
          (/\ t.kind \in {"create", "close"}
           /\ t.pc \in {"create_channel", "greet", "archive", "delete"}
           /\ ~\E u \in Entered : u.kind = t.kind /\ u.pc \in AfterCall(t.pc)
           /\ t.pc = "delete" => channels' = channels)
              => \E u \in Entered :
                    u.kind = t.kind /\ u.opener = t.opener /\ u.pc = "error_ack"]_vars

\* The resolver returns the empty set for the ticket of a frame.
NoTargets(t) ==
    IF t.kind = "create" THEN Targets(t.ticket_type, t.opener) = {}
    ELSE BindingTargets(t) = {}

\* C19: when the resolver returns the empty set, no frame awaits a call of
\* Telegram and nothing is delivered or recorded; a create whose channel was
\* allocated has stored its binding and, its greeting sent, goes on to the
\* "ticket created" acknowledgement with the binding still stored; a close
\* goes on from its acknowledgement to the archive and from the archive to
\* the channel deletion with the binding removed; a refresh ends with no
\* digest id recorded.
C19_NoTargetsIsNotFatal ==
    /\ [](\A t \in Running :
            (t.kind \in {"create", "close", "refresh"} /\ (t.kind = "create" \/ t.binding # 0)
                /\ NoTargets(t)) =>
                /\ t.pc \notin {"notify", "file", "rating", "send", "edit"}
                /\ t.attempted = {}
                /\ t.binding # 0 => heap[t.binding].digest_message_ids = EmptyFn)
    /\ [][\A t \in Left :
            (t.kind = "create" /\ NoTargets(t)) =>
                /\ (t.pc = "create_channel" /\ next_channel' # next_channel) =>
                      /\ next_channel' \in DOMAIN bindings'
                      /\ \E u \in Entered : u.kind = "create" /\ u.pc = "greet"
                /\ (t.pc = "greet" /\ close_buttons' # close_buttons) =>
                      /\ t.ch \in DOMAIN bindings'
                      /\ \E u \in Entered : u.kind = "create" /\ u.pc = "followup"]_vars
    /\ [][\A t \in Left :
            (t.kind = "close" /\ t.binding # 0 /\ Entered # {}) =>
                (NoTargets(t) =>
                    /\ t.pc = "ack" => \E u \in Entered : u.pc = "archive"
                    /\ t.pc = "archive" =>
                          /\ \E u \in Entered : u.pc = "delete"
                          /\ t.ch \notin DOMAIN bindings'
                          /\ t.ch \notin DOMAIN ticket_file')]_vars
    /\ [][\A t \in Left :
            (t.kind = "refresh" /\ NoTargets(t)) =>
                /\ Entered = {}
                /\ UNCHANGED <<ticket_store, digest_sent>>]_vars

\* C19 witness: with nothing registered, a ticket was created and greeted,
\* then closed: its binding is removed and its channel deleted, and nothing
\* was sent to Telegram.
C19_Witness ==
    /\ tg_admin_ids = {} /\ links = EmptyFn /\ roles = EmptyFn
    /\ next_channel = 1 /\ 1 \in DOMAIN heap
    /\ heap[1].digest_message_ids = EmptyFn
    /\ 1 \notin DOMAIN bindings /\ 1 \notin channels
    /\ digest_sent = {}
    /\ tasks = EmptyBag

(***************************************************************************)
(* C20.  Normalizing a template twice gives the template normalizing it    *)
(* once gives: for the template t in memory, which is the normalized form  *)
(* of a document, normalizing the document written for t gives t again     *)
(* (the same fields, the same buttons, the same extra blocks).             *)
(***************************************************************************)
C20_NormalizeIsIdempotent ==
    post # NoPost => normalize_saved_post(AsDict(post)) = post


(***************************************************************************)
(* C21.  Normalizing a legacy document appends exactly one ExtraBlock      *)
(* carrying the split title and description when split_enabled is true     *)
(* and at least one of the split title and description is non-empty, and   *)
(* appends none otherwise; the template carries no split field.            *)
(***************************************************************************)
SplitFields == {"split_enabled", "split_title", "split_description", "split_color_hex"}

\* The dict entries of the extra_blocks of a document.
DeclaredBlocks(d) ==
    IF d.extra_blocks \in {Missing, Null} THEN 0
    ELSE Cardinality({i \in 1..Len(d.extra_blocks.items) :
                        d.extra_blocks.items[i].t = "dict"})

NonEmpty(v) == v # Missing /\ (v.word # "" \/ v.padded)
NonBlank(v) == v # Missing /\ v.word # ""
WordOf(v) == IF v = Missing THEN "" ELSE v.word

\* The template has the declared blocks of the document, and after them
\* one block with the split title and description exactly when `split`.
Migrated(d, p, split) ==
    /\ DOMAIN p \cap SplitFields = {}
    /\ Len(p.extra_blocks) = DeclaredBlocks(d) + (IF split THEN 1 ELSE 0)
    /\ split =>
          LET b == p.extra_blocks[Len(p.extra_blocks)]
          IN /\ b.title = Plain(WordOf(d.split_title))
             /\ b.description = Plain(WordOf(d.split_description))

RowInRange(b) == b.row.t = "int" /\ b.row.i \in 0..4

\* The number a declared row stands for (0 when there is none).
DeclaredRow(v) ==
    IF v = Missing THEN 0
    ELSE IF v.t = "int" THEN v.i
    ELSE CHOOSE i \in 0..9 : ToString(i) = v.word

Clamped(declared) ==
    IF declared < 0 THEN 0 ELSE IF declared > 4 THEN 4 ELSE declared

\* The buttons of a template are the declared buttons, each with its
\* declared row clamped.
RowsFollow(declared, p) ==
    LET items == IF declared.panel_buttons = Missing THEN <<>>
                 ELSE declared.panel_buttons.items
    IN /\ Len(p.panel_buttons) = Len(items)
       /\ \A j \in 1..Len(items) :
             p.panel_buttons[j].row = Number(Clamped(DeclaredRow(items[j].row)))

C22_RowsAreClamped ==
    /\ [](/\ \A name \in DOMAIN post_store :
                \A j \in 1..Len(post_store[name].panel_buttons) :
                    RowInRange(post_store[name].panel_buttons[j])
          /\ \A name \in DOMAIN post_store \cap DOMAIN posts_file :
                RowsFollow(posts_file[name], post_store[name])
          /\ published # NoMessage =>
                \A j \in 1..Len(published.buttons) : RowInRange(published.buttons[j]))
    /\ [][(response' = OK /\ request' \in PanelBodies)
            => RowsFollow(request', post_store'[Plain("promo")])]_vars

\* The editor saved a button declared in row 7 and one declared in row -1,
\* the legacy file declared row "9", and a tag "row9" was compiled.
C22_Witness ==
    /\ request \in PanelBodies
    /\ response = OK
    /\ request.panel_buttons # Missing
    /\ request.panel_buttons.items[1].row = Number(7)
    /\ post_store[Plain("promo")].panel_buttons[1].row = Number(4)
    /\ post_store[Plain("promo")].panel_buttons[2].row = Number(0)
    /\ Plain("legacy") \in DOMAIN post_store
    /\ post_store[Plain("legacy")].panel_buttons[1].row = Number(4)
    /\ published # NoMessage
    /\ \E j \in 1..Len(published.buttons) :
          /\ published.buttons[j].label = String("help", TRUE, FALSE)
          /\ published.buttons[j].row = Number(4)


(***************************************************************************)
(* C23.  Every template held in the template store, whether it entered     *)
(* through the load of posts.json, the save of the editor or /post_save,   *)
(* has a name that is lowercase and not empty.                             *)
(***************************************************************************)
C23_NamesLowercaseNonEmpty ==
    \A name \in DOMAIN post_store :
        /\ post_store[name].name.t = "str"
        /\ ~post_store[name].name.cased
        /\ post_store[name].name.word # ""


(***************************************************************************)
(* C24.  A save request of the editor whose color_hex, gradient_start_hex  *)
(* or gradient_end_hex is not exactly 6 hexadecimal digits is rejected     *)
(* with an error reported to the caller, and the template store is         *)
(* unchanged by it, in memory and in posts.json.                           *)
(***************************************************************************)
SixHexDigits(v) ==
    /\ v.t = "str"
    /\ ~v.padded
    /\ Len(SpellHex(v.word)) = 6
    /\ \A i \in 1..6 : SpellHex(v.word)[i] \in HexDigits

\* A colour is written in the body and is not 6 hexadecimal digits.
BadColour(body) ==
    \E v \in {body.color_hex, body.gradient_start_hex, body.gradient_end_hex} :
        v # Missing /\ ~SixHexDigits(v)

C24_BadColourIsRejected ==
    [][(request' \in FormBodies /\ BadColour(request'))
         => (response' = BadRequest /\ UNCHANGED <<post_store, posts_file>>)]_vars


(***************************************************************************)
(* C25.  Compiling a text replaces every recognized tag by its label       *)
(* (after the emoji and a space when the emoji is not blank), leaves the   *)
(* text outside the tags unchanged, and returns one PanelButton per        *)
(* recognized actionable tag, in the order of the tags.  Compiling         *)
(* "Hello {{btn:Buy|order|success|bottom}} world" gives "Hello Buy world"  *)
(* and the one button {label Buy, action order, style success, row 4}.     *)
(***************************************************************************)
\* The field of a tag as it reads: the whitespace around it dropped.
FieldOf(tag, i) ==
    IF Len(tag.parts) >= i THEN [tag.parts[i] EXCEPT !.padded = FALSE] ELSE Plain("")

\* ACTION, through the alias table.
ActionOf(tag) ==
    LET word == FieldOf(tag, 2).word
    IN IF word \in {"order", "ticket", "zakaz"} THEN "order"
       ELSE IF word \in {"support", "help", "sapport", "podderzhka"} THEN "support"
       ELSE IF word \in {"url", "link", "ssylka"} THEN "url"
       ELSE "invalid"

IsTag(token) == token.t = "tag" /\ token.parts # <<Plain("")>>
Recognized(token) == IsTag(token) /\ Len(token.parts) >= 2 /\ ActionOf(token) # "invalid"
Actionable(token) ==
    Recognized(token) /\ (ActionOf(token) = "url" => FieldOf(token, 6) # Plain(""))

\* The label a recognized tag shows ("Button" when it has none).
LabelOf(tag) ==
    IF FieldOf(tag, 1) = Plain("") THEN String("button", TRUE, FALSE) ELSE FieldOf(tag, 1)

\* What stands for one token in the compiled text.
Replacement(token) ==
    IF ~Recognized(token) THEN <<token>>
    ELSE IF FieldOf(token, 5) = Plain("") THEN <<LabelOf(token)>>
    ELSE <<FieldOf(token, 5), Space, LabelOf(token)>>

\* The places of the tokens of a text for which Test holds, in order.
Places(text, Test(_)) == SelectSeq([i \in 1..Len(text) |-> i], LAMBDA i : Test(text[i]))

\* The compiled text is the replacements of the tokens, one after the
\* other: at[i] is where the replacement of token i ends.
ReplacedInOrder(text, out) ==
    \E at \in [0..Len(text) -> 0..Len(out)] :
        /\ at[0] = 0
        /\ at[Len(text)] = Len(out)
        /\ \A i \in 1..Len(text) :
              /\ at[i] = at[i - 1] + Len(Replacement(text[i]))
              /\ SubSeq(out, at[i - 1] + 1, at[i]) = Replacement(text[i])

Compiled == request # NoRequest /\ response # NoResponse

C25_TagsBecomeLabelsAndButtons ==
    Compiled =>
        LET text == request.text
            actionable == Places(text, Actionable)
        IN /\ ReplacedInOrder(text, response.text)
           /\ Len(response.buttons) = Len(actionable)
           /\ \A k \in 1..Len(actionable) :
                 /\ response.buttons[k].label = LabelOf(text[actionable[k]])
                 /\ response.buttons[k].action.word = ActionOf(text[actionable[k]])
           /\ text = HelloBuyWorld =>
                 /\ response.text = <<String("hello", TRUE, FALSE), Space,
                                       String("buy", TRUE, FALSE), Space, Plain("world")>>
                 /\ Len(response.buttons) = 1
                 /\ response.buttons[1].label = String("buy", TRUE, FALSE)
                 /\ response.buttons[1].action = Plain("order")
                 /\ response.buttons[1].style = Plain("success")
                 /\ response.buttons[1].row = Number(4)

\* The text of the example was compiled, and a text with two actionable
\* tags, the first with an emoji.
C25_Witness ==
    /\ Compiled
    /\ request.text = <<Tag(<<String("help", TRUE, TRUE), String("help", TRUE, FALSE),
                              Space, Plain("row9"), Plain("lifebuoy")>>),
                        Tag(<<Plain("go"), Plain("ticket"), String("danger", TRUE, FALSE),
                              Plain("row 2")>>)>>
    /\ Len(response.buttons) = 2
    /\ response.text = <<Plain("lifebuoy"), Space, String("help", TRUE, FALSE), Plain("go")>>


(***************************************************************************)
(* C26.  A tag with fewer than two fields, or whose ACTION does not        *)
(* resolve through the alias table to order, support or url, is left in    *)
(* the output text character for character and adds no PanelButton.        *)
(***************************************************************************)
LeftAlone(token) ==
    token.t = "tag" /\ (Len(token.parts) < 2 \/ ActionOf(token) = "invalid")

IsTagToken(token) == token.t = "tag"

\* The tags of the compiled text are the tags that are left alone, as they
\* were written and in their order; the buttons come from the other tags
\* only, and a text with no other tag is returned as it is.
C26_MalformedTagsStay ==
    Compiled =>
        LET text == request.text
            others == Places(text, LAMBDA token : token.t = "tag" /\ ~LeftAlone(token))
        IN /\ SelectSeq(response.text, IsTagToken) = SelectSeq(text, LeftAlone)
           /\ Len(response.buttons) <= Len(others)
           /\ others = <<>> => (response.text = text /\ response.buttons = <<>>)

\* A text with a tag of one field and a tag with an unknown action was
\* compiled.
C26_Witness ==
    /\ Compiled
    /\ request.text = <<Tag(<<Plain("buy")>>), Tag(<<Plain("buy"), Plain("dance")>>)>>
    /\ response.text = request.text
    /\ response.buttons = <<>>


(***************************************************************************)
(* C28.  The row of a button that comes from a tag is 4 when POSITION is   *)
(* "bottom", clamp(N, 0, 4) when POSITION is "row<N>" with N a number,     *)
(* and the default row of the caller, clamped, for any other POSITION or   *)
(* none.                                                                   *)
(***************************************************************************)
\* POSITION as written, letter by letter, without the whitespace around.
PositionOf(tag) == Spell(FieldOf(tag, 4).word)

\* A number: digits, after a minus sign or not, with or without
\* whitespace around.
Numeral(chars) ==
    LET n == Trim(chars, " ")
    IN IF n # <<>> /\ Head(n) = "-"
       THEN [is |-> IsDigit(Tail(n)),
             value |-> IF IsDigit(Tail(n)) THEN 0 - IntOf(Tail(n)) ELSE 0]
       ELSE [is |-> IsDigit(n), value |-> IF IsDigit(n) THEN IntOf(n) ELSE 0]

RowNumber(chars) == Numeral(SubSeq(chars, 4, Len(chars)))
StartsWithRow(chars) == Len(chars) >= 3 /\ SubSeq(chars, 1, 3) = <<"r", "o", "w">>

\* The row of the claim as it is written: POSITION is the literal "bottom"
\* or "row<N>", N any number.
RowAsWritten(tag, default_row) ==
    LET p == PositionOf(tag)
        literal == ~FieldOf(tag, 4).cased
    IN IF literal /\ p = <<"bottom">> THEN 4
       ELSE IF literal /\ StartsWithRow(p) /\ RowNumber(p).is
            THEN Clamp(RowNumber(p).value)
            ELSE Clamp(default_row)

\* The row when POSITION is read without regard to the case of its
\* letters and N is a string of digits.
RowAsRead(tag, default_row) ==
    LET p == PositionOf(tag)
    IN IF p = <<"bottom">> THEN 4
       ELSE IF StartsWithRow(p) /\ RowNumber(p).is /\ RowNumber(p).value >= 0
            THEN Clamp(RowNumber(p).value)
            ELSE Clamp(default_row)

RowsAre(Row(_, _)) ==
    Compiled =>
        LET text == request.text
            actionable == Places(text, Actionable)
        IN \A k \in 1..Len(response.buttons) :
              k <= Len(actionable) =>
                 response.buttons[k].row = Number(Row(text[actionable[k]], request.default_row))

\* C28 as stated: "bottom" and "row<N>" are literals, N is any number.
C28_RowFollowsPosition == RowsAre(RowAsWritten)

\* C28 amended: POSITION is read case-insensitively and N is a string of
\* digits; every other POSITION, "row-1" included, gives the default row,
\* clamped.
C28_RowFollowsPositionAsRead == RowsAre(RowAsRead)

\* A text with "row9" and "rowx" was compiled with a default row of 2: rows
\* 4 and 2.
C28_Witness ==
    /\ Compiled
    /\ request.default_row = 2
    /\ request.text = <<Tag(<<String("help", TRUE, TRUE), String("help", TRUE, FALSE),
                              Space, Plain("row9"), Plain("lifebuoy")>>),
                        Tag(<<Plain("go"), Plain("support"), Plain("primary"), Plain("rowx")>>)>>
    /\ Len(response.buttons) = 2
    /\ response.buttons[1].row = Number(4)
    /\ response.buttons[2].row = Number(2)


(***************************************************************************)
(* C27.  A button whose action is url and which has no non-empty URL is    *)
(* never an interactive element: a tag of that kind becomes its label and  *)
(* adds no button, and a structured button of that kind gets neither a     *)
(* link nor a click handler in the view.                                   *)
(***************************************************************************)
\* The buttons of a template as posts.json has them.
WrittenButtons(document) ==
    IF document.panel_buttons.t = "list" THEN document.panel_buttons.items ELSE <<>>

WithoutUrl(button) ==
    button.action = Plain("url") /\ button.url \in {Missing, Null, Plain("")}

IsPublish == DOMAIN request' = {"name"} /\ response' = OK

\* In what was published, no tag with action url and no URL is left and
\* every button that comes from a tag with action url has a URL; and the
\* view of a template that is published has no item for a button that
\* posts.json has with action url and without URL.
C27_UrlButtonWithoutUrlIsInert ==
    /\ [](published # NoMessage =>
            LET structured == Len(published.post.panel_buttons)
                compiled == TokensOf(published.description)
            IN /\ \A i \in 1..Len(compiled) : ~Recognized(compiled[i])
               /\ \A j \in 1..Len(published.buttons) :
                     (j > structured /\ published.buttons[j].action = Plain("url"))
                        => Truthy(published.buttons[j].url))
    /\ [][(IsPublish /\ request'.name \in DOMAIN posts_file) =>
            LET written == WrittenButtons(posts_file[request'.name])
            IN \A j \in 1..Len(written) :
                  WithoutUrl(written[j]) =>
                     \A k \in 1..Len(published'.items) : published'.items[k].place # j]_vars


(***************************************************************************)
(* C29.  The elements of a published view are in the order of their rows,  *)
(* ascending; elements of one row are in the order in which their buttons  *)
(* were inserted: the structured buttons first, then the buttons of the    *)
(* tags.                                                                   *)
(***************************************************************************)
\* The buttons of the tags of a description, in the order of the tags.
TagButtonsOf(description) ==
    LET text == TokensOf(description)
        actionable == Places(text, Actionable)
    IN [k \in 1..Len(actionable) |-> text[actionable[k]]]

C29_ElementsOrderedByRow ==
    (published # NoMessage /\ published.view) =>
        LET items == published.items
            merged == published.buttons
            structured == published.post.panel_buttons
            tags == TagButtonsOf(published.post.description)
        IN /\ Len(merged) = Len(structured) + Len(tags)
           /\ SubSeq(merged, 1, Len(structured)) = structured
           /\ \A k \in 1..Len(tags) :
                 merged[Len(structured) + k].label = LabelOf(tags[k])
           /\ \A k \in 1..Len(items) :
                 merged # <<>> =>
                    /\ items[k].place \in 1..Len(merged)
                    /\ items[k].label = merged[items[k].place].label
                    /\ items[k].row = merged[items[k].place].row.i
           /\ \A a, b \in 1..Len(items) :
                 a < b =>
                    \/ items[a].row < items[b].row
                    \/ items[a].row = items[b].row /\ items[a].place < items[b].place

\* Two structured buttons (rows 4 and 0) and three buttons of tags (rows 1,
\* 4 and 0) were published: in rows 0 and 4 the structured button comes
\* before the button of the tag.
C29_Witness ==
    /\ published # NoMessage
    /\ published.view
    /\ Len(published.post.panel_buttons) = 2
    /\ [k \in 1..Len(published.items) |-> published.items[k].place] = <<2, 5, 3, 1, 4>>
    /\ [k \in 1..Len(published.items) |-> published.items[k].row] = <<0, 0, 1, 4, 4>>


(***************************************************************************)
(* C30.  Publishing a template gives a message with a view exactly when    *)
(* the template is flagged as a ticket panel or has at least one button    *)
(* after the tags are compiled (a structured button or a button of a tag); *)
(* otherwise the message has the content blocks only.                      *)
(***************************************************************************)
C30_ViewIffPanelOrButtons ==
    published # NoMessage =>
        LET template == published.post
            flagged == template.is_ticket_panel = Flag(TRUE)
            merged == Len(template.panel_buttons) + Len(TagButtonsOf(template.description))
        IN /\ published.view <=> (flagged \/ merged >= 1)
           /\ ~published.view => published.items = <<>>

\* A template that is not flagged and has no structured button was
\* published with a view, for the three buttons of its tags.
C30_Witness ==
    /\ published # NoMessage
    /\ published.view
    /\ published.post.is_ticket_panel = Flag(FALSE)
    /\ published.post.panel_buttons = <<>>
    /\ Len(published.items) = 3


(***************************************************************************)
(* C31.  Every execution of close goes through its steps in this order:    *)
(* the closure notice to every recipient, the collection of the archive,   *)
(* the archive files and the rating prompt to every recipient resolved     *)
(* after the collection, the removal of the binding, the request to        *)
(* delete the channel.  The deletion is never requested while the binding  *)
(* exists, and the binding is never removed before every delivery was      *)
(* attempted.                                                              *)
(***************************************************************************)
CloseRank(pc) ==
    CASE pc \in {"ack", "not_ticket"} -> 0
      [] pc = "notify" -> 1
      [] pc = "archive" -> 2
      [] pc \in {"file", "rating"} -> 3
      [] pc = "delete" -> 4

\* What is delivered after the archive was collected.
ArchiveItems == CloseItems \ {"notice"}

\* The frame a close frame was before the step, when the step is not the
\* press of the button.
CameFrom(u) ==
    {t \in Left : t.kind = "close" /\ t.ch = u.ch /\ t.attempted \subseteq u.attempted}

C31_CloseStepsInOrder ==
    [][/\ \A u \in Entered :
             u.kind = "close" =>
                /\ CameFrom(u) = {} => u.pc \in {"ack", "not_ticket"}
                /\ \A t \in CameFrom(u) :
                      /\ CloseRank(t.pc) <= CloseRank(u.pc)
                      /\ u.pc = "archive" => t.targets \X {"notice"} \subseteq u.attempted
                      /\ u.pc \in {"file", "rating", "delete"} =>
                            t.pc \in {"archive", "file", "rating"}
                /\ u.pc = "delete" =>
                      /\ u.targets \X ArchiveItems \subseteq u.attempted
                      /\ u.ch \notin DOMAIN bindings'
       /\ \A ch \in DOMAIN bindings \ DOMAIN bindings' :
             \E u \in Entered : u.kind = "close" /\ u.pc = "delete" /\ u.ch = ch
       /\ \A ch \in channels \ channels' :
             \E t \in Left : t.kind = "close" /\ t.pc = "delete" /\ t.ch = ch]_vars

\* A close with two recipients has removed the binding and awaits the
\* deletion of the channel, which is still there: ten deliveries were
\* attempted, one of them failed.
C31_Witness ==
    \E t \in Running :
        /\ t.kind = "close" /\ t.pc = "delete"
        /\ t.targets = {555, 777}
        /\ t.attempted = t.targets \X CloseItems
        /\ t.any_failed
        /\ t.ch \in channels
        /\ t.ch \notin DOMAIN bindings


(***************************************************************************)
(* C32.  Under fair scheduling, a close of an Open ticket whose archive    *)
(* collection returned leads to Terminal (the binding removed and the      *)
(* deletion of the channel requested) whatever deliveries fail; and a      *)
(* ticket never goes back from Closing or Terminal to Open.                *)
(***************************************************************************)
ClosesOf(ch, pcs) == {t \in Running : t.kind = "close" /\ t.ch = ch /\ t.pc \in pcs}

\* Open: the binding exists, the channel is live, no close_ticket runs.
Open(ch) ==
    /\ ch \in DOMAIN bindings
    /\ ch \in channels
    /\ ClosesOf(ch, {"notify", "archive", "file", "rating", "delete"}) = {}

\* Closing: close_ticket runs, notice and archive in flight.
Closing(ch) == ClosesOf(ch, {"notify", "archive", "file", "rating"}) # {}

\* Terminal: the binding is removed and the deletion requested or done.
Terminal(ch) ==
    /\ ch \in DOMAIN heap
    /\ ch \notin DOMAIN bindings
    /\ ch \notin channels \/ ClosesOf(ch, {"delete"}) # {}

Delivering(ch) == ClosesOf(ch, {"file", "rating"}) # {}

C32_CloseReachesTerminal ==
    /\ \A ch \in TicketChannels : Delivering(ch) ~> Terminal(ch)
    /\ [][\A ch \in DOMAIN heap :
             (Closing(ch) \/ Terminal(ch)) => ~Open(ch)']_vars


(***************************************************************************)
(* C33.  A digest is sent or edited only while the ticket is Open: once    *)
(* close_ticket has started for a channel, no send or edit of a digest of  *)
(* that ticket is started, no digest message is sent and no digest id is   *)
(* added to its binding.                                                   *)
(***************************************************************************)
CloseTriggered(ch) ==
    \/ ClosesOf(ch, {"notify", "archive", "file", "rating", "delete"}) # {}
    \/ Terminal(ch)

C33_NoDigestOnceClosing ==
    [][\A ch \in DOMAIN heap :
          CloseTriggered(ch) =>
             /\ \A u \in Entered :
                   ~(u.kind = "refresh" /\ u.ch = ch /\ u.pc \in {"send", "edit"})
             /\ {s \in digest_sent' : s[1] = ch} = {s \in digest_sent : s[1] = ch}
             /\ DOMAIN DigestIds(heap', ch) = DOMAIN DigestIds(heap, ch)]_vars


(***************************************************************************)
(* C34.  When the collection of the archive raises, the close is           *)
(* abandoned after the closure notice was attempted for every recipient:   *)
(* the binding stays in the store, no archive file and no rating prompt    *)
(* is delivered, the deletion of the channel is not requested; the ticket  *)
(* is Open as it was and its close button can be pressed again.            *)
(***************************************************************************)
\* The frames of a close that awaited the archive and is over with the
\* step: no frame of a close of the channel comes out of it.
AbandonedAtArchive ==
    {t \in Left : /\ t.kind = "close" /\ t.pc = "archive"
                  /\ \A u \in Entered : ~(u.kind = "close" /\ u.ch = t.ch)}

C34_ArchiveFailureAbandonsClose ==
    [][/\ \A t \in AbandonedAtArchive :
             /\ t.targets \X {"notice"} \subseteq t.attempted
             /\ \A a \in t.attempted : a[2] = "notice"
             /\ bindings' = bindings /\ ticket_file' = ticket_file /\ heap' = heap
             /\ channels' = channels /\ close_buttons' = close_buttons
             /\ (t.ch \in DOMAIN bindings /\ t.ch \in channels) =>
                   /\ StoreGet(t.ch)' = t.binding
                   /\ t.ch \in close_buttons'
                   /\ ClosesOf(t.ch, {"notify", "archive", "file", "rating", "delete"})' = {}
                         => Open(t.ch)'
       /\ \A t \in Left, u \in Entered :
             (t.kind = "close" /\ t.pc = "archive" /\ u.kind = "close" /\ u.ch = t.ch) =>
                 \/ u.pc = "file"
                 \/ u.pc = "delete" /\ u.targets = {}]_vars

\* A close awaits the collection of the archive with the closure notice
\* attempted for its two recipients, one of them failed; the binding is in
\* the store and no other close is in flight.
C34_Witness ==
    \E t \in Running :
        /\ t.kind = "close" /\ t.pc = "archive"
        /\ t.targets = {555, 777}
        /\ t.attempted = t.targets \X {"notice"}
        /\ t.any_failed
        /\ StoreGet(t.ch) = t.binding
        /\ BagCardinality(tasks) = 1


(***************************************************************************)
(* C35.  After any sequence of /set_role and /register_me, every user who  *)
(* holds the role admin or manager was given it by a command of a member   *)
(* of TG_ADMIN_IDS: a caller outside TG_ADMIN_IDS can only give viewer or  *)
(* builder, and only to themselves; and every stored role is one of        *)
(* admin, manager, builder, viewer.                                        *)
(***************************************************************************)
Privileged == {"admin", "manager"}

\* The users whose stored role is not what it was.
Regraded == {u \in DOMAIN roles' : u \notin DOMAIN roles \/ roles'[u] # roles[u]}

\* The step is a command sent by a member of TG_ADMIN_IDS.
ByAdministrator ==
    \E caller \in tg_admin_ids :
        \/ \E u \in TgUsers, role \in RoleArgs, chat \in Chats \cup {0} :
              tg_set_role(caller, u, role, chat)
        \/ \E chat \in Chats, role \in RoleArgs : tg_register_me(caller, chat, role)

C35_PrivilegedRolesComeFromAdministrators ==
    /\ [](\A u \in DOMAIN roles :
            /\ roles[u] \in Roles
            /\ roles[u] \in Privileged => tg_admin_ids # {})
    /\ [][/\ DOMAIN roles \subseteq DOMAIN roles'
          /\ (\E u \in Regraded : roles'[u] \in Privileged) => ByAdministrator
          /\ ~ByAdministrator =>
                \A u \in Regraded :
                   /\ u \notin tg_admin_ids
                   /\ roles'[u] \in {"viewer", "builder"}
                   /\ Regraded = {u}
                   /\ \E chat \in Chats : tg_register_me(u, chat, roles'[u])]_vars

\* User 11 is the only member of TG_ADMIN_IDS; user 12 holds manager, and
\* user 11 has registered as a builder.
C35_Witness ==
    /\ tg_admin_ids = {11}
    /\ roles = (11 :> "builder" @@ 12 :> "manager")

=============================================================================
